---- MODULE Spec2Model ----
(***************************************************************************)
(* gshield (secure-wrapper-service): the request admission pipeline.       *)
(*   src/src/auth.ts        authenticator and replay store                  *)
(*   src/unnamed/part_006   rate-limit.ts: send / calendar quota counters   *)
(*   src/src/server.ts      per-principal limiter, middleware and handlers  *)
(*   src/src/audit.ts       audit log                                       *)
(* API keys are sequences of one-character strings.  A jti is run-length   *)
(* encoded: a sequence of runs, Run(c, n) standing for c repeated n times, *)
(* no two neighbouring runs of the same character, so that two jti are the *)
(* same string iff they are equal.  Time is Date.now() in ms,              *)
(* counted from an epoch close enough for 32-bit arithmetic.               *)
(***************************************************************************)
EXTENDS Integers, Sequences, FiniteSets, TLC

VARIABLES
  cfg,          \* WrapperConfig, immutable after start-up
  clockMs,      \* Date.now()
  ticks,        \* number of clock advances taken so far
  replayFiles,  \* files of the replay directory
  lastSweepMs,  \* replayState.lastSweepMs of each process
  tokens,       \* bearer tokens the clients hold (crafted, or from issueSignedToken)
  counters,     \* counter file of each kind ("send", "calendar")
  locks,        \* lock file of each kind: 0 = absent, p = created by process p
  memRate,      \* server.ts memRate: principal -> {bucket, count}
  auditLog,     \* lines of the audit file
  providerCalls,\* calls made on the provider
  proc,         \* control state of each process (multi-process specifications)
  last,         \* outcome of the latest call (observation)
  hist          \* counts of past outcomes (observation)

vars == <<cfg, clockMs, ticks, replayFiles, lastSweepMs, tokens, counters, locks,
          memRate, auditLog, providerCalls, proc, last, hist>>

----------------------------------------------------------------------------
(* Bounds of the model *)

NumProcs == 2
MaxTicks == 3
MaxIssued == 1
MaxCalls == 4

(* Program constants *)

SweepIntervalMs == 60000
ClockSkewSec == 10
JtiMinLen == 16
JtiMaxLen == 64
LockAttempts == 200
MsPerSec == 1000
MsPerMinute == 60000
MsPerHour == 3600000
MsPerDay == 86400000

Procs == 1..NumProcs
StartMs == 2 * MsPerDay + 22 * MsPerHour + 59 * MsPerMinute + 58 * MsPerSec
Audience == "secure-wrapper"

----------------------------------------------------------------------------
(* Text helpers *)

Run(c, n) == [c |-> c, n |-> n]
Rep(c, n) == <<Run(c, n)>>

\* The number of characters of a run-length encoded string.
RECURSIVE StrLen(_)
StrLen(s) == IF s = <<>> THEN 0 ELSE Head(s).n + StrLen(Tail(s))

\* The characters that occur in a run-length encoded string.
Chars(s) == {s[i].c : i \in 1..Len(s)}

HexLower == {"a", "b", "c", "d", "e", "f"}
HexUpper == {"A", "B", "C", "D", "E", "F"}
Digits == {"0", "1", "2", "3", "4", "5", "6", "7", "8", "9"}
HexDigits == <<"1", "2", "3", "4", "5", "6", "7", "8", "9", "a", "b", "c", "d", "e", "f">>

\* crypto.randomUUID(): canonical hyphenated form, 36 characters; n makes it unique.
Uuid(n) ==
  <<Run("0", 8), Run("-", 1), Run("0", 4), Run("-", 1), Run("4", 1), Run("0", 3),
    Run("-", 1), Run("8", 1), Run("0", 3), Run("-", 1), Run("0", 11), Run(HexDigits[n], 1)>>

\* JavaScript values that the code tests with typeof and truthiness.
JsString(s) == [t |-> "string", v |-> s]
JsNumber(s) == [t |-> "number", v |-> s]
JsUndefined == [t |-> "undefined", v |-> ""]
Truthy(x) ==
  CASE x.t = "string" -> x.v # ""
    [] x.t = "number" -> x.v # "0"
    [] x.t = "array" -> TRUE
    [] OTHER -> FALSE

NowSec(ms) == ms \div MsPerSec

----------------------------------------------------------------------------
(* auth.ts *)

safeEqualText(left, right) ==
  IF Len(left) # Len(right) THEN FALSE ELSE left = right

\* isSafeJti with the length bounds left out of the pattern.
isSafeJtiAnyLength(jti) ==
  Chars(jti) \subseteq HexLower \cup HexUpper \cup Digits \cup {"-"}

\* /^[a-f0-9-]{16,64}$/i
isSafeJti(jti) ==
  /\ StrLen(jti) >= JtiMinLen
  /\ StrLen(jti) <= JtiMaxLen
  /\ Chars(jti) \subseteq HexLower \cup HexUpper \cup Digits \cup {"-"}

\* createHmac('sha256', key).update(`${h}.${p}`).digest('base64url')
Hmac(key, h, p) == <<"sha256", key, h, p>>

NoClaims ==
  [json |-> FALSE, sub |-> JsUndefined, iat |-> 0, exp |-> 0, jti |-> <<>>, aud |-> ""]

\* The claims a token carries, or NoClaims for the code's null.
verify(token, key, nowMs) ==
  LET claims == token.p
      now == NowSec(nowMs)
  IN  IF token.nparts # 3 THEN NoClaims
      ELSE IF ~safeEqualText(token.s, Hmac(key, token.h, token.p)) THEN NoClaims
      ELSE IF ~claims.json THEN NoClaims
      ELSE IF claims.exp = 0 \/ claims.exp < now THEN NoClaims
      ELSE IF claims.iat = 0 \/ claims.iat > now + ClockSkewSec THEN NoClaims
      ELSE IF claims.jti = <<>> \/ claims.aud # Audience THEN NoClaims
      ELSE IF ~Truthy(claims.sub) \/ claims.sub.t # "string" THEN NoClaims
      ELSE IF ~isSafeJti(claims.jti) THEN NoClaims
      ELSE claims

\* A file of the replay directory: `${name}.json` when json, created by process ino.
MarkerFile(jti, exp, p) ==
  [name |-> jti, json |-> TRUE, written |-> TRUE, exp |-> exp, ino |-> p]

\* sweepDeletes deleting a marker in the second its token expires.
sweepDeletesAtExpiry(f, nowSec) ==
  f.json /\ (~f.written \/ f.exp = 0 \/ f.exp <= nowSec)

\* sweepDeletes that removes malformed markers only.
sweepDeletesMalformedOnly(f, nowSec) ==
  f.json /\ (~f.written \/ f.exp = 0)

\* What the sweep does with one file it has read (lines 65-72).
sweepDeletes(f, nowSec) ==
  f.json /\ (~f.written \/ f.exp = 0 \/ f.exp < nowSec)

\* sweepExpiredReplayMarkers run to completion by process p.
sweepExpiredReplayMarkers(files, lastMs, nowMs, nowSec) ==
  IF nowMs - lastMs < SweepIntervalMs
  THEN [files |-> files, lastMs |-> lastMs]
  ELSE [files |-> {f \in files : ~sweepDeletes(f, nowSec)}, lastMs |-> nowMs]

markerExists(files, jti) == \E f \in files : f.json /\ f.name = jti

\* checkAndMarkReplay run to completion by process p.
checkAndMarkReplay(jti, exp, files, lastMs, nowMs, p) ==
  LET now == NowSec(nowMs)
      swept == sweepExpiredReplayMarkers(files, lastMs, nowMs, now)
  IN  IF exp < now THEN [ok |-> FALSE, files |-> files, lastMs |-> lastMs]
      ELSE IF markerExists(swept.files, jti)
      THEN [ok |-> FALSE, files |-> swept.files, lastMs |-> swept.lastMs]
      ELSE [ok |-> TRUE, files |-> swept.files \cup {MarkerFile(jti, exp, p)},
            lastMs |-> swept.lastMs]

MkToken(claims, key) ==
  [nparts |-> 3, h |-> "HS256", p |-> claims, s |-> Hmac(key, "HS256", claims)]

issueSignedToken(subject, c, nowMs, uuid) ==
  MkToken([json |-> TRUE, sub |-> JsString(subject), iat |-> NowSec(nowMs),
           exp |-> NowSec(nowMs) + c.tokenTtlSeconds, jti |-> uuid, aud |-> Audience],
          c.tokenSigningKey)

\* Request headers: the two key headers and the authorization header.
Headers(xApiKey, xAgentKey, scheme, token) ==
  [xApiKey |-> xApiKey, xAgentKey |-> xAgentKey, scheme |-> scheme, token |-> token]

\* signingKeys that keeps an empty key.
signingKeysUnfiltered(c) == <<c.tokenSigningKey, c.previousTokenSigningKey>>

\* [cfg.auth.tokenSigningKey, cfg.auth.previousTokenSigningKey].filter(Boolean)
signingKeys(c) ==
  SelectSeq(<<c.tokenSigningKey, c.previousTokenSigningKey>>, LAMBDA k : k # "")

\* The first key of keys under which the token verifies (the for loop of line 120).
RECURSIVE verifyAny(_, _, _)
verifyAny(token, keys, nowMs) ==
  IF keys = <<>> THEN NoClaims
  ELSE LET claims == verify(token, Head(keys), nowMs)
       IN  IF claims.json THEN claims ELSE verifyAny(token, Tail(keys), nowMs)

authenticate(hdr, c, files, lastMs, nowMs, p) ==
  LET apiKey == IF hdr.xApiKey # <<>> THEN hdr.xApiKey ELSE hdr.xAgentKey
      claims == verifyAny(hdr.token, signingKeys(c), nowMs)
      mark == checkAndMarkReplay(claims.jti, claims.exp, files, lastMs, nowMs, p)
      same == [files |-> files, lastMs |-> lastMs]
  IN  IF apiKey # <<>> /\ safeEqualText(apiKey, c.apiKey)
      THEN [ok |-> TRUE, principal |-> "api-key", reason |-> ""] @@ same
      ELSE IF hdr.scheme # "Bearer "
      THEN [ok |-> FALSE, principal |-> "", reason |-> "missing_credentials"] @@ same
      ELSE IF ~claims.json
      THEN [ok |-> FALSE, principal |-> "", reason |-> "invalid_token"] @@ same
      ELSE IF ~mark.ok
      THEN [ok |-> FALSE, principal |-> "", reason |-> "replay_detected",
            files |-> mark.files, lastMs |-> mark.lastMs]
      ELSE [ok |-> TRUE, principal |-> claims.sub.v, reason |-> "",
            files |-> mark.files, lastMs |-> mark.lastMs]

----------------------------------------------------------------------------
(* rate-limit.ts (src/unnamed/part_006) *)

Kinds == {"send", "calendar"}

\* keys(): hourKey `${y}-${m}-${d}-${h}` and dayKey `${y}-${m}-${d}` of the UTC
\* date, written as the day number since the epoch and the hour of that day.
keys(nowMs) ==
  [hourKey |-> <<nowMs \div MsPerDay, (nowMs % MsPerDay) \div MsPerHour>>,
   dayKey |-> <<nowMs \div MsPerDay>>]

\* A counter file: parses is false when its text is not JSON.
NoCounterFile ==
  [exists |-> FALSE, parses |-> TRUE, hourKey |-> <<>>, dayKey |-> <<>>,
   hourCount |-> 0, dayCount |-> 0]

\* load (lines 30-33) where JSON.parse returns; it throws a SyntaxError on a
\* file that exists and does not parse, which the callers test before load.
load(file, nowMs) ==
  IF ~file.exists
  THEN [exists |-> TRUE, parses |-> TRUE, hourKey |-> keys(nowMs).hourKey,
        dayKey |-> keys(nowMs).dayKey, hourCount |-> 0, dayCount |-> 0]
  ELSE file

save(c) == [c EXCEPT !.exists = TRUE]

\* rollOver that moves to the new hour key and keeps the hour count.
rollOverKeepingHourCount(c, nowKeys) ==
  LET h == IF c.hourKey # nowKeys.hourKey
           THEN [c EXCEPT !.hourKey = nowKeys.hourKey] ELSE c
  IN  IF h.dayKey # nowKeys.dayKey
      THEN [h EXCEPT !.dayKey = nowKeys.dayKey, !.dayCount = 0] ELSE h

\* rollOver that looks at the day key alone.
rollOverDayOnly(c, nowKeys) ==
  IF c.dayKey # nowKeys.dayKey
  THEN [c EXCEPT !.dayKey = nowKeys.dayKey, !.dayCount = 0] ELSE c

\* Lines 88-89 / 104-105: reset the counts whose key is not the current one.
rollOver(c, nowKeys) ==
  LET h == IF c.hourKey # nowKeys.hourKey
           THEN [c EXCEPT !.hourKey = nowKeys.hourKey, !.hourCount = 0] ELSE c
  IN  IF h.dayKey # nowKeys.dayKey
      THEN [h EXCEPT !.dayKey = nowKeys.dayKey, !.dayCount = 0] ELSE h

\* checkAndCount that lets a call through when the count equals the limit.
checkAndCountPastLimit(c, file, nowMs, maxHour, maxDay) ==
  LET r == rollOver(c, keys(nowMs))
  IN  IF r.hourCount > maxHour
      THEN [ok |-> FALSE, reason |-> "hour_limit_exceeded", file |-> file]
      ELSE IF r.dayCount > maxDay
      THEN [ok |-> FALSE, reason |-> "day_limit_exceeded", file |-> file]
      ELSE [ok |-> TRUE, reason |-> "",
            file |-> save([r EXCEPT !.hourCount = @ + 1, !.dayCount = @ + 1])]

\* Lines 90-95 / 106-111 on the record c that was loaded: the result and the file
\* afterwards (file is the counter file as it is when save would run).
checkAndCount(c, file, nowMs, maxHour, maxDay) ==
  LET r == rollOver(c, keys(nowMs))
  IN  IF r.hourCount >= maxHour
      THEN [ok |-> FALSE, reason |-> "hour_limit_exceeded", file |-> file]
      ELSE IF r.dayCount >= maxDay
      THEN [ok |-> FALSE, reason |-> "day_limit_exceeded", file |-> file]
      ELSE [ok |-> TRUE, reason |-> "",
            file |-> save([r EXCEPT !.hourCount = @ + 1, !.dayCount = @ + 1])]

\* The lock file after the finally block of withLock.
releaseLock(lk, kind) == [lk EXCEPT ![kind] = 0]

\* withLock that leaves the lock file behind when the critical section denies.
withLockLeakingOnDeny(kind, cs, lk, nowMs, maxHour, maxDay, p) ==
  IF lk[kind] # 0
  THEN [ok |-> FALSE, reason |-> "", threw |-> "rate_limit_lock_timeout",
        counters |-> cs, locks |-> lk]
  ELSE LET held == [lk EXCEPT ![kind] = p]
           r == checkAndCount(load(cs[kind], nowMs), cs[kind], nowMs, maxHour, maxDay)
       IN  IF cs[kind].exists /\ ~cs[kind].parses
           THEN [ok |-> FALSE, reason |-> "", threw |-> "SyntaxError",
                 counters |-> cs, locks |-> releaseLock(held, kind)]
           ELSE [ok |-> r.ok, reason |-> r.reason, threw |-> "",
                 counters |-> [cs EXCEPT ![kind] = r.file],
                 locks |-> IF r.ok THEN releaseLock(held, kind) ELSE held]

\* withLock that takes over a lock file it finds.
withLockTakingOver(kind, cs, lk, nowMs, maxHour, maxDay, p) ==
  LET r == checkAndCount(load(cs[kind], nowMs), cs[kind], nowMs, maxHour, maxDay)
  IN  IF cs[kind].exists /\ ~cs[kind].parses
      THEN [ok |-> FALSE, reason |-> "", threw |-> "SyntaxError",
            counters |-> cs, locks |-> releaseLock(lk, kind)]
      ELSE [ok |-> r.ok, reason |-> r.reason, threw |-> "",
            counters |-> [cs EXCEPT ![kind] = r.file], locks |-> releaseLock(lk, kind)]

\* withLock without the finally block: the lock file stays when fn throws.
withLockLeakingOnThrow(kind, cs, lk, nowMs, maxHour, maxDay, p) ==
  IF lk[kind] # 0
  THEN [ok |-> FALSE, reason |-> "", threw |-> "rate_limit_lock_timeout",
        counters |-> cs, locks |-> lk]
  ELSE LET held == [lk EXCEPT ![kind] = p]
           r == checkAndCount(load(cs[kind], nowMs), cs[kind], nowMs, maxHour, maxDay)
       IN  IF cs[kind].exists /\ ~cs[kind].parses
           THEN [ok |-> FALSE, reason |-> "", threw |-> "SyntaxError",
                 counters |-> cs, locks |-> held]
           ELSE [ok |-> r.ok, reason |-> r.reason, threw |-> "",
                 counters |-> [cs EXCEPT ![kind] = r.file],
                 locks |-> releaseLock(held, kind)]

\* withLock(kind, fn) in a process that runs alone: an existing lock file is never
\* removed by anyone, so all LockAttempts attempts fail and the call throws.  An
\* error thrown by fn (the SyntaxError of load) passes the finally block, which
\* removes the lock file, and the catch block, which rethrows it (line 53).
withLock(kind, cs, lk, nowMs, maxHour, maxDay, p) ==
  IF lk[kind] # 0
  THEN [ok |-> FALSE, reason |-> "", threw |-> "rate_limit_lock_timeout",
        counters |-> cs, locks |-> lk]
  ELSE LET held == [lk EXCEPT ![kind] = p]
           r == checkAndCount(load(cs[kind], nowMs), cs[kind], nowMs, maxHour, maxDay)
       IN  IF cs[kind].exists /\ ~cs[kind].parses
           THEN [ok |-> FALSE, reason |-> "", threw |-> "SyntaxError",
                 counters |-> cs, locks |-> releaseLock(held, kind)]
           ELSE [ok |-> r.ok, reason |-> r.reason, threw |-> "",
                 counters |-> [cs EXCEPT ![kind] = r.file],
                 locks |-> releaseLock(held, kind)]

consumeSendQuota(maxHour, maxDay, cs, lk, nowMs, p) ==
  withLock("send", cs, lk, nowMs, maxHour, maxDay, p)

consumeCalendarQuotaShared(maxHour, maxDay, cs, lk, nowMs, p) ==
  withLock("send", cs, lk, nowMs, maxHour, maxDay, p)

consumeCalendarQuota(maxHour, maxDay, cs, lk, nowMs, p) ==
  withLock("calendar", cs, lk, nowMs, maxHour, maxDay, p)

----------------------------------------------------------------------------
(* Configuration and the states every specification starts from *)

ApiKey == <<"k", "1", "2", "3">>

BaseCfg ==
  [apiKey |-> ApiKey, tokenSigningKey |-> "sign", previousTokenSigningKey |-> "",
   tokenTtlSeconds |-> 2, rateLimitPerMinute |-> 5, maxPayloadBytes |-> 2,
   maxSendsPerHour |-> 2, maxSendsPerDay |-> 3,
   maxEventsPerHour |-> 2, maxEventsPerDay |-> 3,
   calendarIds |-> {"primary"}, cwEnabled |-> FALSE, cwAllowedCalendarIds |-> {},
   cwAllowAttendees |-> FALSE, cwSendUpdates |-> "none",
   replyOnlyDefault |-> TRUE, allowAllRecipients |-> FALSE, allowReplyToAnyone |-> TRUE,
   recipientAllowlist |-> {"ok@example.com"}, domainAllowlist |-> {},
   maxRecentDays |-> 2, authHandlingMode |-> "block",
   threadContextMode |-> "full_thread", defaultThisWeek |-> TRUE,
   maxPastDays |-> 0, maxFutureDays |-> 1,
   allowAttendeeEmails |-> TRUE, allowLocation |-> FALSE, allowMeetingUrls |-> FALSE]

NoToken == [nparts |-> 0, h |-> "", p |-> NoClaims, s |-> <<>>]

IdleProc == [pc |-> "idle"]

InitState ==
  /\ clockMs = StartMs
  /\ ticks = 0
  /\ replayFiles = {}
  /\ lastSweepMs = [p \in Procs |-> 0]
  /\ counters = [k \in Kinds |-> NoCounterFile]
  /\ locks = [k \in Kinds |-> 0]
  /\ memRate = <<>>
  /\ auditLog = <<>>
  /\ providerCalls = <<>>
  /\ proc = [p \in Procs |-> IdleProc]

\* The clock advances by d ms (Date.now() is read as non-decreasing).
Tick(d) ==
  /\ ticks < MaxTicks
  /\ clockMs' = clockMs + d
  /\ ticks' = ticks + 1
  /\ UNCHANGED <<cfg, replayFiles, lastSweepMs, tokens, counters, locks, memRate,
                 auditLog, providerCalls, proc, hist>>

\* last describes a call only in the state that the call leaves.
Forget(none) == last' = IF last.op = "none" THEN last ELSE none

----------------------------------------------------------------------------
(* SpecAuth: one process calling authenticate, issueSignedToken and the sweep *)

StartSec == NowSec(StartMs)

Claims(sub, iat, exp, jti, aud) ==
  [json |-> TRUE, sub |-> sub, iat |-> iat, exp |-> exp, jti |-> jti, aud |-> aud]

\* Tokens signed with the configured key whose jti is the one thing that varies.
JtiSamples ==
  {Rep("a", 16), Rep("f", 64), Rep("A", 16), Rep("a", 15), Rep("a", 65), Rep("g", 16),
   Rep("a", 15) \o Rep("/", 1),
   <<Run(".", 2), Run("/", 1), Run(".", 2), Run("/", 1), Run("e", 1), Run("v", 1),
     Run("i", 1), Run("l", 1)>>,
   <<Run("0", 1), Run("-", 1), Run("c", 14)>>, Rep("0", 15) \o Rep(".", 1)}

JtiTokens(c) ==
  {MkToken(Claims(JsString("agent"), StartSec, StartSec + 100, j, Audience),
           c.tokenSigningKey) : j \in JtiSamples}

\* Tokens signed with the configured key whose times vary.
TimeTokens(c) ==
  {MkToken(Claims(JsString("agent"), tm[1], tm[2], Uuid(tm[3]), Audience), c.tokenSigningKey) :
     tm \in {<<StartSec, StartSec + 1, 10>>, <<StartSec, StartSec, 11>>,
             <<StartSec, StartSec - 1, 12>>, <<StartSec + 11, StartSec + 100, 13>>,
             <<StartSec + 12, StartSec + 100, 14>>, <<0, StartSec + 100, 15>>}}

\* Tokens that are malformed, badly signed or carry other bad claims.
BadTokens(c) ==
  LET good == Claims(JsString("agent"), StartSec, StartSec + 100, Uuid(9), Audience)
  IN  {[MkToken(good, c.tokenSigningKey) EXCEPT !.nparts = 2],
       MkToken(good, "other-key"),
       MkToken(NoClaims, c.tokenSigningKey),
       MkToken([good EXCEPT !.aud = "other"], c.tokenSigningKey),
       MkToken([good EXCEPT !.sub = JsString("")], c.tokenSigningKey),
       MkToken([good EXCEPT !.sub = JsNumber("7")], c.tokenSigningKey),
       MkToken([good EXCEPT !.exp = 0], c.tokenSigningKey),
       MkToken([good EXCEPT !.jti = <<>>], c.tokenSigningKey)}

WrongKeys == {<<"x">>, <<"k", "1", "2", "4">>, <<"k", "1", "2", "3", "4">>}

KeyHeaders ==
  {Headers(ApiKey, <<>>, "", NoToken), Headers(<<>>, ApiKey, "", NoToken),
   Headers(<<>>, <<>>, "", NoToken), Headers(<<"x">>, ApiKey, "", NoToken)}
    \cup {Headers(k, <<>>, "", NoToken) : k \in WrongKeys}

Bearer(t) == Headers(<<>>, <<>>, "Bearer ", t)

AuthHeaders ==
  KeyHeaders
    \cup {Bearer(t) : t \in tokens}
    \cup {Headers(ApiKey, <<>>, "Bearer ", t) : t \in tokens}
    \cup {Headers(<<"x">>, <<>>, "Bearer ", t) : t \in tokens}
    \cup {Headers(<<>>, <<>>, "Basic ", t) : t \in tokens}

NoAuthResult == [ok |-> FALSE, principal |-> "", reason |-> ""]

NoAuthCall ==
  [op |-> "none", hdr |-> Headers(<<>>, <<>>, "", NoToken), res |-> NoAuthResult,
   bearer |-> FALSE, priorOk |-> FALSE, created |-> FALSE]

\* The clients hold a token issued at start-up and one crafted token.
InitAuth ==
  /\ InitState
  /\ cfg = BaseCfg
  /\ \E t \in JtiTokens(cfg) \cup TimeTokens(cfg) \cup BadTokens(cfg) :
       tokens = {issueSignedToken("agent-1", cfg, StartMs, Uuid(1)), t}
  /\ last = NoAuthCall
  /\ hist = [okCount |-> <<>>]

Bump(f, k) == IF k \in DOMAIN f THEN [f EXCEPT ![k] = @ + 1] ELSE f @@ (k :> 1)

\* authenticate(headers, cfg) in process 1.
AuthCall(hdr) ==
  LET c == cfg
      r == authenticate(hdr, cfg, replayFiles, lastSweepMs[1], clockMs, 1)
      \* the call presents a bearer token and not the configured API key
      bearer == hdr.scheme = "Bearer " /\ c.apiKey \notin {hdr.xApiKey, hdr.xAgentKey}
      jti == hdr.token.p.jti
  IN  /\ replayFiles' = r.files
      /\ lastSweepMs' = [lastSweepMs EXCEPT ![1] = r.lastMs]
      /\ last' = [op |-> "auth", hdr |-> hdr,
                  res |-> [ok |-> r.ok, principal |-> r.principal, reason |-> r.reason],
                  bearer |-> bearer,
                  priorOk |-> bearer /\ jti \in DOMAIN hist.okCount,
                  created |-> markerExists(r.files, jti) /\ ~markerExists(replayFiles, jti)]
      /\ hist' = IF bearer /\ r.ok THEN [hist EXCEPT !.okCount = Bump(@, jti)] ELSE hist
      /\ UNCHANGED <<cfg, clockMs, ticks, tokens, counters, locks, memRate, auditLog,
                     providerCalls, proc>>

\* sweepReplayNow(), run by the interval timer of startReplaySweeper.
SweepTimer ==
  LET s == sweepExpiredReplayMarkers(replayFiles, lastSweepMs[1], clockMs, NowSec(clockMs))
  IN  /\ replayFiles' = s.files
      /\ lastSweepMs' = [lastSweepMs EXCEPT ![1] = s.lastMs]
      /\ Forget(NoAuthCall)
      /\ UNCHANGED <<cfg, clockMs, ticks, tokens, counters, locks, memRate, auditLog,
                     providerCalls, proc, hist>>

\* The process restarts: module state is re-initialised, the files stay.
Restart ==
  /\ lastSweepMs[1] # 0
  /\ lastSweepMs' = [lastSweepMs EXCEPT ![1] = 0]
  /\ memRate' = <<>>
  /\ Forget(NoAuthCall)
  /\ UNCHANGED <<cfg, clockMs, ticks, replayFiles, tokens, counters, locks, auditLog,
                 providerCalls, proc, hist>>

TickAuth(d) ==
  /\ Tick(d)
  /\ Forget(NoAuthCall)

NextAuth ==
  \/ \E hdr \in AuthHeaders : AuthCall(hdr)
  \/ SweepTimer
  \/ Restart
  \/ \E d \in {MsPerSec, MsPerMinute} : TickAuth(d)

SpecAuth == InitAuth /\ [][NextAuth]_vars

\* The interval timer of startReplaySweeper keeps firing: a sweep attempt is never
\* postponed for ever.
SpecAuthLive == SpecAuth /\ WF_vars(SweepTimer)

----------------------------------------------------------------------------
(* Claims checked under SpecAuth *)

LastJti == last.hdr.token.p.jti
LastExp == last.hdr.token.p.exp
LastIat == last.hdr.token.p.iat
BearerCall == last.op = "auth" /\ last.bearer

\* C1: for each jti at most one authenticate call presenting a bearer token with
\* that jti returns ok, over any sequence of calls, sweeps, clock advances and
\* restarts; every later call with the same token, while exp > now, returns
\* ok = false with reason replay_detected.
C1_OneAdmissionPerJti ==
  /\ \A j \in DOMAIN hist.okCount : hist.okCount[j] <= 1
  /\ (BearerCall /\ last.priorOk /\ LastExp > NowSec(clockMs))
       => (~last.res.ok /\ last.res.reason = "replay_detected")

\* A token admitted earlier is presented again before its expiry and refused.
C1_Witness ==
  /\ BearerCall /\ last.priorOk /\ LastExp > NowSec(clockMs)
  /\ last.res.reason = "replay_detected"
  /\ ticks > 0

LowerCasePattern(jti) ==
  /\ StrLen(jti) \in JtiMinLen..JtiMaxLen
  /\ Chars(jti) \subseteq HexLower \cup Digits \cup {"-"}

AnyCasePattern(jti) ==
  /\ StrLen(jti) \in JtiMinLen..JtiMaxLen
  /\ Chars(jti) \subseteq HexLower \cup HexUpper \cup Digits \cup {"-"}

\* C9 as stated: authenticate denies every bearer token whose jti does not match
\* [a-f0-9-]{16,64} in lower case, and creates no replay marker for it.
C9_LowerCaseOnly ==
  (BearerCall /\ ~LowerCasePattern(LastJti))
    => (~last.res.ok /\ ~markerExists(replayFiles, LastJti))

\* C9 as amended: authenticate denies every bearer token whose jti does not match
\* [a-f0-9-]{16,64} with hex letters of either case, and creates no replay marker
\* for it.
C9_SafeJtiOnly ==
  (BearerCall /\ ~AnyCasePattern(LastJti))
    => (~last.res.ok /\ ~markerExists(replayFiles, LastJti))

\* A correctly signed token with otherwise valid claims is refused for its jti.
C9_Witness ==
  /\ BearerCall /\ last.hdr.token \in JtiTokens(cfg)
  /\ ~AnyCasePattern(LastJti)
  /\ last.res.reason = "invalid_token"

\* C10: authenticate admits a correctly signed bearer token only if exp > now and
\* iat <= now + 10 at verification time; a token with exp <= now or iat > now + 10
\* is denied and no replay marker is created for it.
C10_ExpiryAndSkew ==
  BearerCall =>
    /\ last.res.ok => (LastExp > NowSec(clockMs) /\ LastIat <= NowSec(clockMs) + ClockSkewSec)
    /\ (LastExp <= NowSec(clockMs) \/ LastIat > NowSec(clockMs) + ClockSkewSec)
         => (~last.res.ok /\ ~last.created)

\* The names of the files of the replay directory.
FileNames(files) == {f.name : f \in files}

\* A scan of the directory is due in process 1: a sweep attempt now passes the
\* throttle of line 58.
ScanDue == clockMs - lastSweepMs[1] >= SweepIntervalMs

\* The step is a scan by process 1 (a restart also changes lastSweepMs, to 0).
Scanned == lastSweepMs[1]' # lastSweepMs[1] /\ lastSweepMs[1]' # 0

\* The markers whose exp has passed.
ExpiredMarkers == {f \in replayFiles : f.json /\ f.exp < NowSec(clockMs)}

\* C32: a sweep attempt scans the directory only if at least 60 seconds have
\* passed since the process's previous scan, and files are removed by scans
\* only; a scan removes every marker whose exp has passed; so, with sweeps kept
\* being attempted, whenever a scan is due the directory eventually holds no
\* marker whose exp has passed.
C32_ExpiredEventuallySwept ==
  /\ [][/\ Scanned => (ScanDue /\ lastSweepMs[1]' = clockMs)
        /\ Scanned => \A f \in ExpiredMarkers : f.name \notin FileNames(replayFiles')
        /\ ~Scanned => FileNames(replayFiles) \subseteq FileNames(replayFiles')]_vars
  /\ ScanDue ~> (ExpiredMarkers = {})

\* A token was admitted, its marker expired and a scan has removed it.
C32_Witness ==
  /\ hist.okCount # <<>>
  /\ replayFiles = {}
  /\ lastSweepMs[1] = clockMs
  /\ ticks > 0

----------------------------------------------------------------------------
(* SpecReplayConc: processes sharing the replay directory; every file-system
   call of checkAndMarkReplay and of the sweep is a step of its own *)

\* A process outside authenticate and outside the sweep.
IdleReplay ==
  [pc |-> "idle", after |-> "idle", jti |-> <<>>, exp |-> 0, names |-> {},
   target |-> <<>>, nowSec |-> 0]

\* The file openSync(marker, 'wx') leaves behind: created, nothing written yet.
EmptyMarker(jti, p) == [MarkerFile(jti, 0, p) EXCEPT !.written = FALSE]

InitReplayConc ==
  /\ InitState
  /\ cfg = [BaseCfg EXCEPT !.tokenTtlSeconds = 100]
  /\ tokens = {issueSignedToken("agent-1", cfg, StartMs, Uuid(1))}
  /\ last = NoAuthCall
  /\ hist = [okCount |-> <<>>, calls |-> 0, valid |-> 0]

PcOf(p) == IF proc[p] = IdleProc THEN "idle" ELSE proc[p].pc

\* p is inside authenticate (and not merely inside a timer sweep).
InCall(p) ==
  \/ PcOf(p) \in {"open", "write", "close"}
  \/ PcOf(p) \in {"sweep", "rm"} /\ proc[p].after = "open"

\* Lines 57-63 run by p: the throttle, lastSweepMs and readdirSync; `st` is p's
\* state on entry and `after` the step that follows the sweep.
sweepStart(p, st, nowSec, after) ==
  IF clockMs - lastSweepMs[p] < SweepIntervalMs
  THEN /\ proc' = [proc EXCEPT ![p] = IF after = "idle" THEN IdleProc
                                      ELSE [st EXCEPT !.pc = after]]
       /\ UNCHANGED lastSweepMs
  ELSE /\ lastSweepMs' = [lastSweepMs EXCEPT ![p] = clockMs]
       /\ proc' = [proc EXCEPT ![p] = [st EXCEPT !.pc = "sweep", !.after = after,
                                       !.names = {f.name : f \in replayFiles},
                                       !.nowSec = nowSec]]

\* authenticate of a bearer token in process p, up to the first file-system call
\* that another process can observe (lines 119-121, 77-80, 57-63).
ConcAuth(p, t) ==
  LET claims == verifyAny(t, signingKeys(cfg), clockMs)
      now == NowSec(clockMs)
  IN  /\ PcOf(p) = "idle"
      /\ hist.calls < MaxCalls
      /\ IF ~claims.json \/ claims.exp < now
         THEN /\ hist' = [hist EXCEPT !.calls = @ + 1]
              /\ UNCHANGED <<proc, lastSweepMs>>
         ELSE /\ hist' = [hist EXCEPT !.calls = @ + 1,
                                      !.valid = @ + (IF claims.exp > now THEN 1 ELSE 0)]
              /\ sweepStart(p, [IdleReplay EXCEPT !.jti = claims.jti, !.exp = claims.exp],
                            now, "open")
      /\ UNCHANGED <<cfg, clockMs, ticks, replayFiles, tokens, counters, locks, memRate,
                     auditLog, providerCalls, last>>

\* sweepReplayNow() started by the interval timer of process p (lines 93-96).
ConcSweepTimer(p) ==
  /\ PcOf(p) = "idle"
  /\ sweepStart(p, IdleReplay, NowSec(clockMs), "idle")
  /\ UNCHANGED <<cfg, clockMs, ticks, replayFiles, tokens, counters, locks, memRate,
                 auditLog, providerCalls, last, hist>>

\* One turn of the loop of lines 64-73 up to the decision: readFileSync and
\* JSON.parse of one listed name. A file that is gone makes readFileSync throw, and
\* the catch block goes on to rmSync.
SweepRead(p) ==
  /\ PcOf(p) = "sweep"
  /\ IF proc[p].names = {}
     THEN proc' = [proc EXCEPT ![p] = IF proc[p].after = "idle" THEN IdleProc
                                      ELSE [@ EXCEPT !.pc = proc[p].after]]
     ELSE \E n \in proc[p].names :
            LET fs == {f \in replayFiles : f.name = n}
            IN  IF fs = {} \/ \E f \in fs : sweepDeletes(f, proc[p].nowSec)
                THEN proc' = [proc EXCEPT ![p].pc = "rm", ![p].target = n]
                ELSE proc' = [proc EXCEPT ![p].names = @ \ {n}]
  /\ UNCHANGED <<cfg, clockMs, ticks, replayFiles, lastSweepMs, tokens, counters, locks,
                 memRate, auditLog, providerCalls, last, hist>>

\* fs.rmSync(file, { force: true }) of lines 68 and 70: removes whatever file has
\* that name now.
SweepRm(p) ==
  /\ PcOf(p) = "rm"
  /\ replayFiles' = {f \in replayFiles : f.name # proc[p].target}
  /\ proc' = [proc EXCEPT ![p].pc = "sweep", ![p].names = @ \ {proc[p].target},
                          ![p].target = <<>>]
  /\ UNCHANGED <<cfg, clockMs, ticks, lastSweepMs, tokens, counters, locks, memRate,
                 auditLog, providerCalls, last, hist>>

\* fs.openSync(marker, 'wx') of line 83; EEXIST ends the call with false (line 88).
MarkerOpen(p) ==
  /\ PcOf(p) = "open"
  /\ IF markerExists(replayFiles, proc[p].jti)
     THEN /\ proc' = [proc EXCEPT ![p] = IdleProc]
          /\ UNCHANGED replayFiles
     ELSE /\ replayFiles' = replayFiles \cup {EmptyMarker(proc[p].jti, p)}
          /\ proc' = [proc EXCEPT ![p].pc = "write"]
  /\ UNCHANGED <<cfg, clockMs, ticks, lastSweepMs, tokens, counters, locks, memRate,
                 auditLog, providerCalls, last, hist>>

\* fs.writeFileSync(fd, JSON.stringify({ exp })) of line 84: the write goes to the
\* file p created, whether or not the directory still holds it.
MarkerWrite(p) ==
  /\ PcOf(p) = "write"
  /\ replayFiles' = {IF f.name = proc[p].jti /\ f.ino = p
                     THEN MarkerFile(f.name, proc[p].exp, p) ELSE f : f \in replayFiles}
  /\ proc' = [proc EXCEPT ![p].pc = "close"]
  /\ UNCHANGED <<cfg, clockMs, ticks, lastSweepMs, tokens, counters, locks, memRate,
                 auditLog, providerCalls, last, hist>>

\* fs.closeSync(fd); return true (lines 85-86): authenticate answers ok.
MarkerClose(p) ==
  /\ PcOf(p) = "close"
  /\ hist' = [hist EXCEPT !.okCount = Bump(@, proc[p].jti)]
  /\ proc' = [proc EXCEPT ![p] = IdleProc]
  /\ UNCHANGED <<cfg, clockMs, ticks, replayFiles, lastSweepMs, tokens, counters, locks,
                 memRate, auditLog, providerCalls, last>>

TickReplayConc(d) ==
  /\ Tick(d)
  /\ UNCHANGED last

NextReplayConc ==
  \/ \E p \in Procs, t \in tokens : ConcAuth(p, t)
  \/ \E p \in Procs : ConcSweepTimer(p)
  \/ \E p \in Procs : SweepRead(p)
  \/ \E p \in Procs : SweepRm(p)
  \/ \E p \in Procs : MarkerOpen(p)
  \/ \E p \in Procs : MarkerWrite(p)
  \/ \E p \in Procs : MarkerClose(p)
  \/ \E d \in {MsPerSec, MsPerMinute} : TickReplayConc(d)

SpecReplayConc == InitReplayConc /\ [][NextReplayConc]_vars

----------------------------------------------------------------------------
(* Claims checked under SpecReplayConc *)

Admissions(jti) == IF jti \in DOMAIN hist.okCount THEN hist.okCount[jti] ELSE 0

\* C2: with processes sharing the replay directory and the steps of marker
\* installation and of the sweeps interleaving freely, a token is admitted by at
\* most one authenticate call, by exactly one once every call that was given the
\* unexpired token has returned, and the marker of an admitted token is in the
\* directory for as long as the token has not expired.
C2_SingleWinner ==
  \A t \in tokens :
    /\ Admissions(t.p.jti) <= 1
    /\ (hist.valid > 0 /\ \A p \in Procs : ~InCall(p)) => Admissions(t.p.jti) = 1
    /\ (Admissions(t.p.jti) > 0 /\ t.p.exp > NowSec(clockMs))
         => markerExists(replayFiles, t.p.jti)

\* C31: a step removes a file of the replay directory only if the file is a
\* .json file that is malformed or whose stored exp is earlier than the current
\* time, and never the marker of a token that authenticate would still accept
\* at that time.
C31_SweepDeletesOnlyDead ==
  [][\A f \in replayFiles :
       f.name \notin FileNames(replayFiles') =>
         /\ f.json
         /\ ~f.written \/ f.exp = 0 \/ f.exp < NowSec(clockMs)
         /\ ~\E t \in tokens :
               /\ t.p.jti = f.name
               /\ verifyAny(t, signingKeys(cfg), clockMs).json]_vars

----------------------------------------------------------------------------
(* SpecQuotaConc: processes sharing the two counter files and their lock files,
   each making one consume call of either kind; every file-system call of
   withLock and of the critical section is a step of its own *)

Min(a, b) == IF a < b THEN a ELSE b

\* The counter kinds and limits the concurrent calls are made with.
QuotaSetups == {<<"send", 1, 1>>, <<"calendar", 2, 3>>}

InitQuotaConc ==
  /\ InitState
  /\ \E s \in QuotaSetups :
       /\ cfg = IF s[1] = "send"
                THEN [BaseCfg EXCEPT !.maxSendsPerHour = s[2], !.maxSendsPerDay = s[3]]
                ELSE [BaseCfg EXCEPT !.maxEventsPerHour = s[2], !.maxEventsPerDay = s[3]]
       /\ hist = [kind |-> s[1]]
  /\ tokens = {}
  /\ last = NoAuthCall

maxHourOf(kind) == IF kind = "send" THEN cfg.maxSendsPerHour ELSE cfg.maxEventsPerHour
maxDayOf(kind) == IF kind = "send" THEN cfg.maxSendsPerDay ELSE cfg.maxEventsPerDay

\* Process p enters consumeSendQuota or consumeCalendarQuota: withLock with i = 0.
ConsumeStart(p) ==
  /\ proc[p] = IdleProc
  /\ \E k \in Kinds : proc' = [proc EXCEPT ![p] = [pc |-> "lock", i |-> 0, kind |-> k]]
  /\ UNCHANGED <<cfg, clockMs, ticks, replayFiles, lastSweepMs, tokens, counters, locks,
                 memRate, auditLog, providerCalls, last, hist>>

\* LockAcquire that does not find out whether the lock file exists.
LockAcquireUnguarded(p) ==
  /\ proc[p].pc = "lock"
  /\ locks' = [locks EXCEPT ![proc[p].kind] = p]
  /\ proc' = [proc EXCEPT ![p] = [pc |-> "load", kind |-> proc[p].kind]]
  /\ UNCHANGED <<cfg, clockMs, ticks, replayFiles, lastSweepMs, tokens, counters,
                 memRate, auditLog, providerCalls, last, hist>>

\* fs.openSync(p.lock, 'wx') succeeds (line 45).
LockAcquire(p) ==
  /\ proc[p].pc = "lock"
  /\ locks[proc[p].kind] = 0
  /\ locks' = [locks EXCEPT ![proc[p].kind] = p]
  /\ proc' = [proc EXCEPT ![p] = [pc |-> "load", kind |-> proc[p].kind]]
  /\ UNCHANGED <<cfg, clockMs, ticks, replayFiles, lastSweepMs, tokens, counters,
                 memRate, auditLog, providerCalls, last, hist>>

\* LockBusy that tries again without counting its attempts.
LockBusyUnbounded(p) ==
  /\ proc[p].pc = "lock"
  /\ locks[proc[p].kind] # 0
  /\ UNCHANGED vars

\* fs.openSync fails with EEXIST: the 5 ms busy wait and i += 1 (lines 52-56);
\* after LockAttempts failures the call throws (line 58).
LockBusy(p) ==
  /\ proc[p].pc = "lock"
  /\ locks[proc[p].kind] # 0
  /\ proc' = [proc EXCEPT ![p] =
                IF proc[p].i + 1 < LockAttempts
                THEN [pc |-> "lock", i |-> proc[p].i + 1, kind |-> proc[p].kind]
                ELSE [pc |-> "done", kind |-> proc[p].kind, ok |-> FALSE, reason |-> "",
                      threw |-> "rate_limit_lock_timeout"]]
  /\ UNCHANGED <<cfg, clockMs, ticks, replayFiles, lastSweepMs, tokens, counters, locks,
                 memRate, auditLog, providerCalls, last, hist>>

\* The critical section up to its return, its throw or its save: load, roll-over,
\* the two limit checks, the increments (lines 85-93).
CriticalLoad(p) ==
  LET k == proc[p].kind
      r == checkAndCount(load(counters[k], clockMs), counters[k], clockMs,
                         maxHourOf(k), maxDayOf(k))
      corrupt == counters[k].exists /\ ~counters[k].parses
  IN  /\ proc[p].pc = "load"
      /\ proc' = [proc EXCEPT ![p] =
                    IF corrupt
                    THEN [pc |-> "unlock", kind |-> k, ok |-> FALSE, reason |-> "",
                          file |-> counters[k], threw |-> "SyntaxError"]
                    ELSE [pc |-> IF r.ok THEN "save" ELSE "unlock", kind |-> k,
                          ok |-> r.ok, reason |-> r.reason, file |-> r.file,
                          threw |-> ""]]
      /\ UNCHANGED <<cfg, clockMs, ticks, replayFiles, lastSweepMs, tokens, counters,
                     locks, memRate, auditLog, providerCalls, last, hist>>

\* save(p.file, c) (line 94).
CriticalSave(p) ==
  /\ proc[p].pc = "save"
  /\ counters' = [counters EXCEPT ![proc[p].kind] = proc[p].file]
  /\ proc' = [proc EXCEPT ![p].pc = "unlock"]
  /\ UNCHANGED <<cfg, clockMs, ticks, replayFiles, lastSweepMs, tokens, locks, memRate,
                 auditLog, providerCalls, last, hist>>

\* The finally block (lines 48-51) and the return, or the rethrow, of withLock.
LockRelease(p) ==
  /\ proc[p].pc = "unlock"
  /\ locks' = releaseLock(locks, proc[p].kind)
  /\ proc' = [proc EXCEPT ![p] = [pc |-> "done", kind |-> proc[p].kind,
                                  ok |-> proc[p].ok, reason |-> proc[p].reason,
                                  threw |-> proc[p].threw]]
  /\ UNCHANGED <<cfg, clockMs, ticks, replayFiles, lastSweepMs, tokens, counters,
                 memRate, auditLog, providerCalls, last, hist>>

NextQuotaConc ==
  \/ \E p \in Procs : ConsumeStart(p)
  \/ \E p \in Procs : LockAcquire(p)
  \/ \E p \in Procs : LockBusy(p)
  \/ \E p \in Procs : CriticalLoad(p)
  \/ \E p \in Procs : CriticalSave(p)
  \/ \E p \in Procs : LockRelease(p)

SpecQuotaConc == InitQuotaConc /\ [][NextQuotaConc]_vars

\* The calls of a process that keeps running, while the other processes may stop
\* for good at any step, the steps inside their critical sections included.  A
\* call starts while no other call is waiting for its lock: the attempts of a
\* waiting call read the lock file only.
NextQuotaLive ==
  \/ \E p \in Procs : (\A q \in Procs : proc[q].pc # "lock") /\ ConsumeStart(p)
  \/ \E p \in Procs : LockAcquire(p)
  \/ \E p \in Procs : LockBusy(p)
  \/ \E p \in Procs : CriticalLoad(p)
  \/ \E p \in Procs : CriticalSave(p)
  \/ \E p \in Procs : LockRelease(p)

SpecQuotaLive ==
  /\ InitQuotaConc
  /\ [][NextQuotaLive]_vars
  /\ WF_vars(LockAcquire(1) \/ LockBusy(1) \/ CriticalLoad(1) \/ CriticalSave(1)
                \/ LockRelease(1))

----------------------------------------------------------------------------
(* Claims checked under SpecQuotaConc *)

\* The calls on the counter whose limits the setup chose.
Finished == {p \in Procs : proc[p].pc = "done" /\ proc[p].kind = hist.kind}
Returned == {p \in Finished : proc[p].threw = ""}
OkCalls == {p \in Returned : proc[p].ok}

\* Every call that was made is over, and at least one was made.
AllCallsOver == Finished # {} /\ \A p \in Procs : proc[p].pc \in {"idle", "done"}

\* C3 as stated: once N concurrent consume calls on an absent counter are over,
\* exactly min(N, M) of them returned ok and the persisted hourCount is min(N, M).
C3_MinOfCalls ==
  AllCallsOver =>
    /\ Cardinality(OkCalls) = Min(Cardinality(Finished), maxHourOf(hist.kind))
    /\ counters[hist.kind].hourCount = Min(Cardinality(Finished), maxHourOf(hist.kind))

\* C3 as amended: a call that finds the lock held LockAttempts times throws
\* rate_limit_lock_timeout and consumes nothing; with A the number of calls that
\* returned, exactly min(A, M) returned ok and the persisted hourCount is min(A, M).
C3_MinOfReturned ==
  AllCallsOver =>
    /\ Cardinality(OkCalls) = Min(Cardinality(Returned), maxHourOf(hist.kind))
    /\ counters[hist.kind].hourCount = Min(Cardinality(Returned), maxHourOf(hist.kind))

C3_Witness ==
  /\ AllCallsOver
  /\ Finished = Procs
  /\ Returned # Finished
  /\ Cardinality(OkCalls) = Min(Cardinality(Returned), maxHourOf(hist.kind))
  /\ counters[hist.kind].exists

\* The processes between acquiring and releasing the lock of a counter kind.
Holding(kind) ==
  {p \in Procs : proc[p] # IdleProc /\ proc[p].pc \in {"load", "save", "unlock"}
                 /\ proc[p].kind = kind}

\* The calls of a kind whose critical section has saved its increment.
Counted(kind) ==
  {p \in Procs : /\ proc[p] # IdleProc /\ proc[p].pc \in {"unlock", "done"}
                 /\ proc[p].kind = kind /\ proc[p].ok}

\* C33: at every moment at most one process is between acquiring and releasing
\* the lock of a counter kind, and it is the one the lock file belongs to; the
\* counter file holds one increment for each call that saved, so none is lost,
\* and a process in its critical section finds the counter as the calls before
\* it left it.
C33_MutualExclusion ==
  \A kind \in Kinds :
    /\ Cardinality(Holding(kind)) <= 1
    /\ \A p \in Holding(kind) : locks[kind] = p
    /\ Holding(kind) = {} => locks[kind] = 0
    /\ counters[kind].hourCount = Cardinality(Counted(kind))
    /\ counters[kind].dayCount = Cardinality(Counted(kind))
    /\ \A p \in Holding(kind) :
         proc[p].pc = "save" => proc[p].file.hourCount = counters[kind].hourCount + 1

\* The send lock and the calendar lock are held at the same time, by two
\* processes that are both about to save.
C33_Witness ==
  /\ Holding("send") # {} /\ Holding("calendar") # {}
  /\ Holding("send") # Holding("calendar")
  /\ \A p \in Holding("send") \cup Holding("calendar") : proc[p].pc = "save"

\* C34: a consume call of a process that keeps running ends, whatever the other
\* processes do and even when the holder of the lock never releases it: the
\* call returns the result of its critical section, or it throws
\* rate_limit_lock_timeout, and it throws only on the failure of its
\* LockAttempts-th exclusive create.
C34_ConsumeTerminates ==
  /\ [][(proc[1].pc # "done" /\ proc'[1].pc = "done") =>
          IF proc'[1].threw = ""
          THEN proc[1].pc = "unlock" /\ locks[proc[1].kind] = 1 /\ locks'[proc[1].kind] = 0
          ELSE /\ proc'[1].threw = "rate_limit_lock_timeout"
               /\ proc[1].pc = "lock" /\ proc[1].i = LockAttempts - 1
               /\ locks[proc[1].kind] # 0]_vars
  /\ (proc[1].pc = "lock") ~> (proc[1].pc = "done")

\* The call gave up while the holder was still inside its critical section.
C34_Witness ==
  /\ proc[1].pc = "done" /\ proc[1].threw = "rate_limit_lock_timeout"
  /\ \E q \in Procs : q # 1 /\ proc[q].pc = "load" /\ locks[proc[1].kind] = q

----------------------------------------------------------------------------
(* policy.ts (src/unnamed/part_007): recipient gating.  A string of the
   request or of the configuration is an atom; Text gives its characters. *)

Text(s) ==
  CASE s = "ok@example.com" ->
         <<"o", "k", "@", "e", "x", "a", "m", "p", "l", "e", ".", "c", "o", "m">>
    [] s = " OK@Example.com " ->
         <<" ", "O", "K", "@", "E", "x", "a", "m", "p", "l", "e", ".", "c", "o", "m", " ">>
    [] s = "eve@evil.org" -> <<"e", "v", "e", "@", "e", "v", "i", "l", ".", "o", "r", "g">>
    [] s = "evil.org" -> <<"e", "v", "i", "l", ".", "o", "r", "g">>
    [] s = "a b@evil.org" ->
         <<"a", " ", "b", "@", "e", "v", "i", "l", ".", "o", "r", "g">>
    [] s = "ok@example" -> <<"o", "k", "@", "e", "x", "a", "m", "p", "l", "e">>
    [] s = "victim@example.com@attacker.com" ->
         <<"v", "i", "c", "t", "i", "m", "@", "e", "x", "a", "m", "p", "l", "e", ".", "c", "o", "m", "@", "a", "t", "t", "a", "c", "k", "e", "r", ".", "c", "o", "m">>
    [] s = "@example.com" ->
         <<"@", "e", "x", "a", "m", "p", "l", "e", ".", "c", "o", "m">>
    [] s = "ok@" ->
         <<"o", "k", "@">>
    [] s = "ok@example.c" ->
         <<"o", "k", "@", "e", "x", "a", "m", "p", "l", "e", ".", "c">>
    [] s = "o!k@example.com" ->
         <<"o", "!", "k", "@", "e", "x", "a", "m", "p", "l", "e", ".", "c", "o", "m">>
    [] s = "ok@mail.example.com" ->
         <<"o", "k", "@", "m", "a", "i", "l", ".", "e", "x", "a", "m", "p", "l", "e", ".", "c", "o", "m">>
    [] s = "example.com" ->
         <<"e", "x", "a", "m", "p", "l", "e", ".", "c", "o", "m">>
    [] s = " Evil.ORG " ->
         <<" ", "E", "v", "i", "l", ".", "O", "R", "G", " ">>
    [] s = "attacker.com" ->
         <<"a", "t", "t", "a", "c", "k", "e", "r", ".", "c", "o", "m">>
    [] s = "primary" -> <<"p", "r", "i", "m", "a", "r", "y">>
    [] s = " primary " -> <<" ", "p", "r", "i", "m", "a", "r", "y", " ">>
    [] s = "secret" -> <<"s", "e", "c", "r", "e", "t">>
    [] s = " " -> <<" ">>
    [] s = "0" -> <<"0">>
    [] s = "1" -> <<"1">>
    [] s = "2" -> <<"2">>
    [] s = "10" -> <<"1", "0">>
    [] s = " 2 " -> <<" ", "2", " ">>
    [] s = "-3" -> <<"-", "3">>
    [] s = "abc" -> <<"a", "b", "c">>
    [] s = "2x" -> <<"2", "x">>
    [] s = "Infinity" -> <<"I", "n", "f", "i", "n", "i", "t", "y">>
    [] OTHER -> <<>>

LowerAlpha ==
  <<"a", "b", "c", "d", "e", "f", "g", "h", "i", "j", "k", "l", "m",
    "n", "o", "p", "q", "r", "s", "t", "u", "v", "w", "x", "y", "z">>
UpperAlpha ==
  <<"A", "B", "C", "D", "E", "F", "G", "H", "I", "J", "K", "L", "M",
    "N", "O", "P", "Q", "R", "S", "T", "U", "V", "W", "X", "Y", "Z">>

toLowerCase(s) ==
  [i \in 1..Len(s) |->
     IF \E k \in 1..26 : UpperAlpha[k] = s[i]
     THEN LowerAlpha[CHOOSE k \in 1..26 : UpperAlpha[k] = s[i]] ELSE s[i]]

RECURSIVE trim(_)
trim(s) ==
  IF s = <<>> THEN s
  ELSE IF Head(s) = " " THEN trim(Tail(s))
  ELSE IF s[Len(s)] = " " THEN trim(SubSeq(s, 1, Len(s) - 1))
  ELSE s

\* normalizeAddress (lines 52-60): the normalized characters, or <<>> for null.
normalizeAddress(input) ==
  LET normalized == toLowerCase(trim(input))
      ats == {i \in 1..Len(normalized) : normalized[i] = "@"}
      at == CHOOSE i \in ats : TRUE
      local == SubSeq(normalized, 1, at - 1)
      domain == SubSeq(normalized, at + 1, Len(normalized))
      letters == {LowerAlpha[k] : k \in 1..26}
      \* /^[a-z0-9.-]+\.[a-z]{2,}$/ with the last dot of the match at position d
      domainOk == \E d \in 2..(Len(domain) - 2) :
                    /\ domain[d] = "."
                    /\ \A i \in 1..(d - 1) : domain[i] \in letters \cup Digits \cup {".", "-"}
                    /\ \A i \in (d + 1)..Len(domain) : domain[i] \in letters
  IN  IF normalized = <<>> \/ \E i \in 1..Len(normalized) : normalized[i] = " "
      THEN <<>>
      ELSE IF Cardinality(ats) # 1 \/ local = <<>> \/ domain = <<>> THEN <<>>
      ELSE IF \E i \in 1..Len(local) :
                local[i] \notin letters \cup Digits \cup {".", "_", "%", "+", "-"}
      THEN <<>>
      ELSE IF ~domainOk THEN <<>>
      ELSE normalized

allowedRecipientExactEntries(to, allowEmails, allowDomains, allowAll) ==
  LET normalized == normalizeAddress(Text(to))
      at == CHOOSE i \in 1..Len(normalized) : normalized[i] = "@"
      domain == SubSeq(normalized, at + 1, Len(normalized))
  IN  IF normalized = <<>> THEN FALSE
      ELSE IF allowAll THEN TRUE
      ELSE IF allowEmails = {} /\ allowDomains = {} THEN FALSE
      ELSE IF normalized \in {Text(x) : x \in allowEmails} THEN TRUE
      ELSE domain \in {Text(x) : x \in allowDomains}

\* allowedRecipient (lines 62-79); allowEmails and allowDomains are sets of strings.
allowedRecipient(to, allowEmails, allowDomains, allowAll) ==
  LET normalized == normalizeAddress(Text(to))
      at == CHOOSE i \in 1..Len(normalized) : normalized[i] = "@"
      domain == SubSeq(normalized, at + 1, Len(normalized))
  IN  IF normalized = <<>> THEN FALSE
      ELSE IF allowAll THEN TRUE
      ELSE IF allowEmails = {} /\ allowDomains = {} THEN FALSE
      ELSE IF normalized \in {toLowerCase(trim(Text(x))) : x \in allowEmails} THEN TRUE
      ELSE domain \in {toLowerCase(trim(Text(x))) : x \in allowDomains}

\* allowedCalendarForWrite of policy.ts: the id is in the write allowlist when
\* that is non-empty, else in the configured calendar ids.
allowedCalendarForWrite(calendarId, allowedCalendarIds, calendarIds) ==
  IF allowedCalendarIds # {} THEN calendarId \in allowedCalendarIds
  ELSE calendarId \in calendarIds

\* Number(x) of JavaScript for null and for strings holding a decimal integer,
\* blanks, Infinity or other text: a finite integer, an infinity or NaN.
RECURSIVE DecValue(_)
DecValue(s) ==
  LET DecDigits == <<"0", "1", "2", "3", "4", "5", "6", "7", "8", "9">>
  IN  IF s = <<>> THEN 0
      ELSE 10 * DecValue(SubSeq(s, 1, Len(s) - 1))
           + (CHOOSE k \in 1..10 : DecDigits[k] = s[Len(s)]) - 1

Number(x) ==
  LET t == trim(Text(x.v))
      signed == t # <<>> /\ Head(t) \in {"+", "-"}
      digits == IF signed THEN Tail(t) ELSE t
  IN  IF x.t = "null" \/ t = <<>> THEN [k |-> "num", n |-> 0]
      ELSE IF digits = Text("Infinity") THEN [k |-> "inf", n |-> 0]
      ELSE IF digits # <<>> /\ \A i \in 1..Len(digits) : digits[i] \in Digits
      THEN [k |-> "num", n |-> IF Head(t) = "-" THEN 0 - DecValue(digits)
                               ELSE DecValue(digits)]
      ELSE [k |-> "nan", n |-> 0]

clampEmailDaysNoFloor(requested, maxRecentDays) ==
  LET req == IF Number(requested).k = "num" THEN Number(requested).n ELSE maxRecentDays
  IN  IF req < maxRecentDays THEN req ELSE maxRecentDays

\* clampEmailDays that takes null for a value that is not a number.
clampEmailDaysNullAsMax(requested, maxRecentDays) ==
  LET req == IF requested.t # "null" /\ Number(requested).k = "num"
             THEN Number(requested).n ELSE maxRecentDays
      least == IF req < maxRecentDays THEN req ELSE maxRecentDays
  IN  IF 1 > least THEN 1 ELSE least

\* clampEmailDays (lines 10-13); requested is a string or null.
clampEmailDays(requested, maxRecentDays) ==
  LET req == IF Number(requested).k = "num" THEN Number(requested).n ELSE maxRecentDays
      least == IF req < maxRecentDays THEN req ELSE maxRecentDays
  IN  IF 1 > least THEN 1 ELSE least

\* weekBounds (lines 1-8): Monday 00:00:00 to Sunday 23:59:59 of the UTC week of
\* now; day 0 of the epoch was a Thursday.
weekBounds(now) ==
  LET day == (now \div MsPerDay + 4) % 7
      diffToMon == (day + 6) % 7
      start == (now \div MsPerDay - diffToMon) * MsPerDay
  IN  [start |-> start, end |-> start + 7 * MsPerDay - MsPerSec]

\* clampCalendarRange (lines 15-50) with now = new Date().  A query parameter is
\* absent, a text that Date parses ([t |-> "date"], v its time value in ms) or
\* another string, which gives an Invalid Date; a comparison with an Invalid Date
\* is false.
clampCalendarRange(qStart, qEnd, now, maxPastDays, maxFutureDays, defaultThisWeek) ==
  LET min == (now \div MsPerDay - maxPastDays) * MsPerDay
      max == (now \div MsPerDay + maxFutureDays) * MsPerDay + MsPerDay - 1
      given(x) == x.t = "date" \/ Truthy(x)
      both == given(qStart) /\ given(qEnd)
      date(ms) == [valid |-> TRUE, ms |-> ms]
      ToDate(x) == IF x.t = "date" THEN date(x.v) ELSE [valid |-> FALSE, ms |-> 0]
      start0 == IF both THEN ToDate(qStart)
                ELSE IF defaultThisWeek THEN date(weekBounds(now).start) ELSE date(min)
      end0 == IF both THEN ToDate(qEnd)
              ELSE IF defaultThisWeek THEN date(weekBounds(now).end) ELSE date(max)
      start == IF start0.valid /\ start0.ms < min THEN date(min) ELSE start0
      end1 == IF end0.valid /\ end0.ms > max THEN date(max) ELSE end0
      end == IF end1.valid /\ start.valid /\ end1.ms < start.ms THEN start ELSE end1
  IN  [start |-> start, end |-> end, min |-> min, max |-> max]

----------------------------------------------------------------------------
(* redaction.ts and the text handling of server.ts.  A text is the sequence of
   its lines; a line is told by what the patterns see in it: "plain", "auth" (a
   phrase of AUTH_PATTERNS), "quoted" (begins with >), "quoted_auth" (begins with
   > and holds a phrase of AUTH_PATTERNS), "wrote" (On ... wrote:), "blank". *)

classifyAuthSensitiveUnquoted(text) == \E i \in 1..Len(text) : text[i] = "auth"

\* classifyAuthSensitive (redaction.ts lines 7-9).
classifyAuthSensitive(text) ==
  \E i \in 1..Len(text) : text[i] \in {"auth", "quoted_auth"}

\* String.prototype.trim on a text: blank lines at both ends go.
RECURSIVE trimLines(_)
trimLines(text) ==
  IF text = <<>> THEN text
  ELSE IF Head(text) = "blank" THEN trimLines(Tail(text))
  ELSE IF text[Len(text)] = "blank" THEN trimLines(SubSeq(text, 1, Len(text) - 1))
  ELSE text

\* stripQuotedReplyText (server.ts lines 64-83): the lines before the first line
\* that matches a cut pattern, trimmed.
stripQuotedReplyText(text) ==
  LET cut == {i \in 1..Len(text) : text[i] \in {"quoted", "quoted_auth", "wrote"}}
      first == IF cut = {} THEN Len(text) + 1
               ELSE CHOOSE i \in cut : \A j \in cut : i <= j
  IN  trimLines(SubSeq(text, 1, first - 1))

\* parseCalendarIds (server.ts lines 85-89): input is absent or the segments of the
\* parameter between commas; ids are sets of character sequences.
parseCalendarIds(input, fallback) ==
  LET ids == {trim(Text(input.v[i])) : i \in 1..Len(input.v)} \ {<<>>}
  IN  IF input.t # "list" \/ input.v = <<>> THEN fallback
      ELSE IF ids # {} THEN ids ELSE fallback

----------------------------------------------------------------------------
(* server.ts and audit.ts.  The handlers are functions of the request and of
   the files and maps they touch, gathered in a record w. *)

\* The minute bucket `${y}-${m}-${d}-${h}-${min}` of principalRateOk (line 16).
bucketOf(nowMs) ==
  <<nowMs \div MsPerDay, (nowMs % MsPerDay) \div MsPerHour,
    (nowMs % MsPerHour) \div MsPerMinute>>

principalRateOk(principal, limit, mr, nowMs) ==
  IF principal \notin DOMAIN mr \/ mr[principal].bucket # bucketOf(nowMs)
  THEN [ok |-> TRUE,
        memRate |-> (principal :> [bucket |-> bucketOf(nowMs), count |-> 1]) @@ mr]
  ELSE IF mr[principal].count >= limit THEN [ok |-> FALSE, memRate |-> mr]
  ELSE [ok |-> TRUE, memRate |-> [mr EXCEPT ![principal].count = @ + 1]]

\* What the server process reads and writes.
World ==
  [replayFiles |-> replayFiles, lastSweepMs |-> lastSweepMs[1], counters |-> counters,
   locks |-> locks, memRate |-> memRate, auditLog |-> auditLog,
   providerCalls |-> providerCalls, tokens |-> tokens]

\* audit.ts logAudit: one line { ts, ...entry } appended to the audit file.
logAudit(w, nowMs, entry) == [w EXCEPT !.auditLog = Append(@, [ts |-> nowMs] @@ entry)]

\* A response: the status and error of c.json, with what the request left behind;
\* principal is c.get('principal'), quota the outcome of the consume call if any.
asErr(w, status, error) ==
  [w |-> w, status |-> status, error |-> error, principal |-> "", quota |-> "none",
   passed |-> FALSE, token |-> NoToken, json |-> <<>>]

onErrorUnlogged(w, nowMs, principal, path, code) == asErr(w, 502, "upstream_failure")

\* app.onError (lines 95-101).
onError(w, nowMs, principal, path, code) ==
  asErr(logAudit(w, nowMs, [principal |-> IF principal # "" THEN principal ELSE "unknown",
                            action |-> "request_error", path |-> path, code |-> code]),
        502, "upstream_failure")

auditOkAnonymous(w, nowMs, principal, entry) ==
  asErr(logAudit(w, nowMs, [principal |-> "unknown"] @@ entry), 200, "")

\* audit(c, entry) (lines 59-62) followed by c.json(...) with status 200.
auditOk(w, nowMs, principal, entry) ==
  asErr(logAudit(w, nowMs, [principal |-> IF principal # "" THEN principal ELSE "unknown"]
                           @@ entry), 200, "")

\* A request body: the declared content-length, the bytes that arrive, what the
\* text parses to ("object", "null", "array", "scalar", or "invalid" when
\* JSON.parse throws), and the fields of the parsed object.
NoFields ==
  [sub |-> JsUndefined, threadId |-> JsUndefined, to |-> JsUndefined,
   subject |-> JsUndefined, body |-> JsUndefined, calendarId |-> JsUndefined,
   summary |-> JsUndefined, start |-> JsUndefined, end |-> JsUndefined,
   attendees |-> JsUndefined, addAttendees |-> JsUndefined, location |-> JsUndefined,
   sendUpdates |-> JsUndefined]
Body(f) == [declared |-> 1, size |-> 1, json |-> "object", f |-> f @@ NoFields]
NoBody == [declared |-> 0, size |-> 0, json |-> "object", f |-> NoFields]

\* The properties the handlers read from body.body: those of the parsed object;
\* all undefined on an array or a scalar.
fieldsOf(body) == IF body.json = "object" THEN body.f ELSE NoFields

parseJsonLimitedAtLimit(body, maxBytes) ==
  IF body.declared >= maxBytes THEN "payload_too_large"
  ELSE IF body.size >= maxBytes THEN "payload_too_large"
  ELSE IF body.json = "invalid" THEN "invalid_json"
  ELSE ""

parseJsonLimitedLenient(body, maxBytes) ==
  IF body.declared > maxBytes THEN "payload_too_large"
  ELSE IF body.size > maxBytes THEN "payload_too_large"
  ELSE ""

\* readBodyLimited and parseJsonLimited (lines 24-57): the error, or "" when the
\* body parsed.
parseJsonLimited(body, maxBytes) ==
  IF body.declared > maxBytes THEN "payload_too_large"
  ELSE IF body.size > maxBytes THEN "payload_too_large"
  ELSE IF body.json = "invalid" THEN "invalid_json"
  ELSE ""

consumeAndCallRefunding(req, principal, w, c, nowMs, kind, call, entry) ==
  LET lim == IF kind = "send"
             THEN consumeSendQuota(c.maxSendsPerHour, c.maxSendsPerDay,
                                   w.counters, w.locks, nowMs, 1)
             ELSE consumeCalendarQuota(c.maxEventsPerHour, c.maxEventsPerDay,
                                       w.counters, w.locks, nowMs, 1)
      w1 == [w EXCEPT !.counters = lim.counters, !.locks = lim.locks]
      w2 == [w1 EXCEPT !.providerCalls = Append(@, call)]
      w3 == [w EXCEPT !.providerCalls = Append(@, call)]
  IN  IF lim.threw # ""
      THEN [onError(w1, nowMs, principal, req.path, "INTERNAL_ERROR")
              EXCEPT !.quota = "threw"]
      ELSE IF ~lim.ok
      THEN [asErr(w1, 429, IF lim.reason # "" THEN lim.reason ELSE "rate_limited")
              EXCEPT !.quota = "denied"]
      ELSE IF req.fail
      THEN [onError(w3, nowMs, principal, req.path, "INTERNAL_ERROR")
              EXCEPT !.quota = "ok"]
      ELSE [auditOk(w2, nowMs, principal, entry) EXCEPT !.quota = "ok"]

\* The end of the four mutating handlers: consume the quota of the kind, call the
\* provider, audit (lines 220-224, 238-242, 250-254, 263-267).
consumeAndCall(req, principal, w, c, nowMs, kind, call, entry) ==
  LET lim == IF kind = "send"
             THEN consumeSendQuota(c.maxSendsPerHour, c.maxSendsPerDay,
                                   w.counters, w.locks, nowMs, 1)
             ELSE consumeCalendarQuota(c.maxEventsPerHour, c.maxEventsPerDay,
                                       w.counters, w.locks, nowMs, 1)
      w1 == [w EXCEPT !.counters = lim.counters, !.locks = lim.locks]
      w2 == [w1 EXCEPT !.providerCalls = Append(@, call)]
  IN  IF lim.threw # ""
      THEN [onError(w1, nowMs, principal, req.path, "INTERNAL_ERROR")
              EXCEPT !.quota = "threw"]
      ELSE IF ~lim.ok
      THEN [asErr(w1, 429, IF lim.reason # "" THEN lim.reason ELSE "rate_limited")
              EXCEPT !.quota = "denied"]
      ELSE IF req.fail
      THEN [onError(w2, nowMs, principal, req.path, "INTERNAL_ERROR")
              EXCEPT !.quota = "ok"]
      ELSE [auditOk(w2, nowMs, principal, entry) EXCEPT !.quota = "ok"]

\* A read handler reduced to its provider call and its audit entry.
readAndAudit(req, principal, w, nowMs, call, entry) ==
  LET w1 == [w EXCEPT !.providerCalls = Append(@, call)]
  IN  IF req.fail THEN onError(w1, nowMs, principal, req.path, "INTERNAL_ERROR")
      ELSE auditOk(w1, nowMs, principal, entry)

\* GET /v1/email/unread (lines 128-179); req.raw is the list the provider returns.
emailUnread(req, principal, w, c, nowMs) ==
  LET days == clampEmailDays(IF Truthy(req.q.days) THEN req.q.days
                             ELSE [t |-> "null", v |-> ""], c.maxRecentDays)
      contextMode == IF req.q.contextMode \in {JsString("latest_only"),
                                               JsString("full_thread")}
                     THEN req.q.contextMode.v ELSE c.threadContextMode
      shown(text) == IF contextMode = "latest_only" THEN stripQuotedReplyText(text)
                     ELSE text
      item(m) ==
        [id |-> m.id, threadId |-> m.threadId, subject |-> m.subject,
         snippet |-> shown(m.snippet), body |-> shown(m.body),
         sensitivity |-> IF classifyAuthSensitive(m.subject \o shown(m.snippet)
                                                  \o shown(m.body))
                         THEN "auth_sensitive" ELSE "normal"]
      transformed == [i \in 1..Len(req.raw) |-> item(req.raw[i])]
      normal(m) == m.sensitivity = "normal"
      sensitive(m) == m.sensitivity = "auth_sensitive"
      items == IF c.authHandlingMode = "block" THEN SelectSeq(transformed, normal)
               ELSE transformed
      blocked == SelectSeq(transformed, sensitive)
      respond(r) ==
        IF r.status # 200 THEN r
        ELSE [r EXCEPT !.json =
                [days |-> days, contextMode |-> contextMode,
                 authHandlingMode |-> c.authHandlingMode, count |-> Len(items),
                 items |-> items, hasWarnings |-> c.authHandlingMode = "warn",
                 warnings |-> IF c.authHandlingMode = "warn"
                              THEN [i \in 1..Len(blocked) |->
                                      [id |-> blocked[i].id,
                                       threadId |-> blocked[i].threadId,
                                       wouldBlock |-> TRUE,
                                       reason |-> "auth_artifact_detected",
                                       category |-> "auth_sensitive"]]
                              ELSE <<>>]]
  IN  respond(readAndAudit(req, principal, w, nowMs,
                           [op |-> "getUnreadEmails", days |-> days],
                           [action |-> "email_unread", days |-> days,
                            contextMode |-> contextMode,
                            authHandlingMode |-> c.authHandlingMode,
                            blockedCount |-> Len(blocked), count |-> Len(items)]))

eventItemUngated(e, c) ==
  LET Or(a, b) == IF Truthy(a) THEN a ELSE b
      null == [t |-> "null", v |-> ""]
  IN
  [id |-> e.id, summary |-> Or(e.summary, JsString("")),
   start |-> Or(e.start.dateTime, Or(e.start.date, null)),
   end |-> Or(e.end.dateTime, Or(e.end.date, null))]
    @@ (IF Truthy(e.location) THEN [location |-> e.location] ELSE <<>>)
    @@ (IF Truthy(e.hangoutLink) THEN [hangoutLink |-> e.hangoutLink] ELSE <<>>)
    @@ (IF e.attendees.t = "array" /\ Len(e.attendees.v) > 0
        THEN [attendees |->
                [i \in 1..Len(e.attendees.v) |->
                   [k \in {"email", "displayName", "self", "responseStatus"} |->
                      e.attendees.v[i][k]]]]
        ELSE <<>>)

\* The projection of a provider event to a response item (lines 186-196): a
\* record whose keys are the properties of the item; a || b is Or(a, b).
eventItem(e, c) ==
  LET Or(a, b) == IF Truthy(a) THEN a ELSE b
      null == [t |-> "null", v |-> ""]
  IN
  [id |-> e.id, summary |-> Or(e.summary, JsString("")),
   start |-> Or(e.start.dateTime, Or(e.start.date, null)),
   end |-> Or(e.end.dateTime, Or(e.end.date, null))]
    @@ (IF c.allowLocation /\ Truthy(e.location) THEN [location |-> e.location]
        ELSE <<>>)
    @@ (IF c.allowMeetingUrls /\ Truthy(e.hangoutLink)
        THEN [hangoutLink |-> e.hangoutLink] ELSE <<>>)
    @@ (IF c.allowAttendeeEmails /\ e.attendees.t = "array" /\ Len(e.attendees.v) > 0
        THEN [attendees |->
                [i \in 1..Len(e.attendees.v) |->
                   [k \in {"email", "displayName", "self", "responseStatus"} |->
                      e.attendees.v[i][k]]]]
        ELSE <<>>)

\* GET /v1/calendar/events (lines 181-208); toISOString of an Invalid Date throws
\* before the provider is called.
calendarEvents(req, principal, w, c, nowMs) ==
  LET range == clampCalendarRange(req.q.start, req.q.end, nowMs, c.maxPastDays,
                                  c.maxFutureDays, c.defaultThisWeek)
      calendarIds == parseCalendarIds(req.q.calendars, {Text(x) : x \in c.calendarIds})
      respond(r) ==
        IF r.status # 200 THEN r
        ELSE [r EXCEPT !.json = [start |-> range.start.ms, end |-> range.end.ms,
                                 calendars |-> calendarIds, count |-> Len(req.raw),
                                 items |-> [i \in 1..Len(req.raw) |->
                                              eventItem(req.raw[i], c)]]]
  IN  IF ~range.start.valid \/ ~range.end.valid
      THEN onError(w, nowMs, principal, req.path, "INTERNAL_ERROR")
      ELSE respond(readAndAudit(req, principal, w, nowMs,
                     [op |-> "getCalendarEvents", timeMin |-> range.start.ms,
                      timeMax |-> range.end.ms, calendarIds |-> calendarIds],
                     [action |-> "calendar_events", start |-> range.start.ms,
                      end |-> range.end.ms, calendars |-> calendarIds,
                      count |-> Len(req.raw),
                      allowAttendeeEmails |-> c.allowAttendeeEmails,
                      allowLocation |-> c.allowLocation,
                      allowMeetingUrls |-> c.allowMeetingUrls]))

\* POST /v1/auth/token (lines 105-114); uuid is what crypto.randomUUID() yields.
\* Reading a property of null (line 112) throws a TypeError.
mintToken(req, w, c, nowMs, uuid) ==
  LET apiKey == IF req.hdr.xApiKey # <<>> THEN req.hdr.xApiKey ELSE req.hdr.xAgentKey
      auth == authenticate(Headers(apiKey, <<>>, "", NoToken), c, w.replayFiles,
                           w.lastSweepMs, nowMs, 1)
      err == parseJsonLimited(req.body, c.maxPayloadBytes)
      f == fieldsOf(req.body)
      sub == IF f.sub.t = "string" THEN f.sub.v ELSE "agent"
      token == issueSignedToken(sub, c, nowMs, uuid)
  IN  IF ~auth.ok THEN asErr(w, 401, "unauthorized")
      ELSE IF err # "" THEN asErr(w, IF err = "payload_too_large" THEN 413 ELSE 400, err)
      ELSE IF req.body.json = "null"
      THEN onError(w, nowMs, "", req.path, "INTERNAL_ERROR")
      ELSE [asErr([w EXCEPT !.tokens = @ \cup {token}], 200, "") EXCEPT !.token = token]

\* admit that keeps the replay marker only of a request the limiter lets through.
admitMarkingOnPass(req, w, c, nowMs) ==
  LET decide(auth, w1, principal, rate) ==
        IF ~auth.ok
        THEN asErr(logAudit(w1, nowMs, [principal |-> "unknown", action |-> "auth_deny",
                                        path |-> req.path, reason |-> auth.reason]),
                   401, "unauthorized") @@ [authed |-> ""]
        ELSE IF ~rate.ok
        THEN asErr(w, 429, "rate_limited") @@ [authed |-> auth.principal]
        ELSE [asErr([w1 EXCEPT !.memRate = rate.memRate], 0, "")
                EXCEPT !.principal = principal, !.passed = TRUE]
               @@ [authed |-> auth.principal]
      limited(auth, principal) ==
        decide(auth, [w EXCEPT !.replayFiles = auth.files, !.lastSweepMs = auth.lastMs],
               principal,
               principalRateOk(principal, c.rateLimitPerMinute, w.memRate, nowMs))
      authenticated(auth) ==
        limited(auth, IF auth.principal # "" THEN auth.principal ELSE "unknown")
  IN  authenticated(authenticate(req.hdr, c, w.replayFiles, w.lastSweepMs, nowMs, 1))

\* The middleware of /v1/* (lines 116-126) up to next(); authed is auth.principal.
admit(req, w, c, nowMs) ==
  LET decide(auth, w1, principal, rate) ==
        IF ~auth.ok
        THEN asErr(logAudit(w1, nowMs, [principal |-> "unknown", action |-> "auth_deny",
                                        path |-> req.path, reason |-> auth.reason]),
                   401, "unauthorized") @@ [authed |-> ""]
        ELSE IF ~rate.ok
        THEN asErr(w1, 429, "rate_limited") @@ [authed |-> auth.principal]
        ELSE [asErr([w1 EXCEPT !.memRate = rate.memRate], 0, "")
                EXCEPT !.principal = principal, !.passed = TRUE]
               @@ [authed |-> auth.principal]
      limited(auth, principal) ==
        decide(auth, [w EXCEPT !.replayFiles = auth.files, !.lastSweepMs = auth.lastMs],
               principal,
               principalRateOk(principal, c.rateLimitPerMinute, w.memRate, nowMs))
      authenticated(auth) ==
        limited(auth, IF auth.principal # "" THEN auth.principal ELSE "unknown")
  IN  authenticated(authenticate(req.hdr, c, w.replayFiles, w.lastSweepMs, nowMs, 1))

calendarWriteGateBodyFirst(req, c, complete) ==
  LET err == parseJsonLimited(req.body, c.maxPayloadBytes)
      calendarId == fieldsOf(req.body).calendarId
  IN  IF err # ""
      THEN [status |-> IF err = "payload_too_large" THEN 413 ELSE 400, error |-> err]
      ELSE IF ~c.cwEnabled THEN [status |-> 403, error |-> "calendar_write_disabled"]
      ELSE IF req.body.json = "null" THEN [status |-> 502, error |-> "TypeError"]
      ELSE IF ~complete THEN [status |-> 400, error |-> "missing_fields"]
      ELSE IF ~(calendarId.t = "string" /\
                allowedCalendarForWrite(calendarId.v, c.cwAllowedCalendarIds,
                                        c.calendarIds))
      THEN [status |-> 403, error |-> "calendar_not_allowed"]
      ELSE [status |-> 0, error |-> ""]

\* The checks of the calendar write handlers before the quota (lines 211-217 and
\* 228-235): the refusal, status 0 when the request may go on.  complete says that
\* the fields the route requires are truthy; status 502 stands for the TypeError
\* of destructuring null (lines 215, 233).
calendarWriteGate(req, c, complete) ==
  LET err == parseJsonLimited(req.body, c.maxPayloadBytes)
      calendarId == fieldsOf(req.body).calendarId
  IN  IF ~c.cwEnabled THEN [status |-> 403, error |-> "calendar_write_disabled"]
      ELSE IF err # ""
      THEN [status |-> IF err = "payload_too_large" THEN 413 ELSE 400, error |-> err]
      ELSE IF req.body.json = "null" THEN [status |-> 502, error |-> "TypeError"]
      ELSE IF ~complete THEN [status |-> 400, error |-> "missing_fields"]
      ELSE IF ~(calendarId.t = "string" /\
                allowedCalendarForWrite(calendarId.v, c.cwAllowedCalendarIds,
                                        c.calendarIds))
      THEN [status |-> 403, error |-> "calendar_not_allowed"]
      ELSE [status |-> 0, error |-> ""]

\* The checks of the reply and send handlers before the quota (lines 246-249 and
\* 258-262); status 502 stands for the TypeError of allowedRecipient on a
\* recipient that is no string, and of reading a property of null (lines 248,
\* 261).
outboundGate(req, c, isReply) ==
  LET err == parseJsonLimited(req.body, c.maxPayloadBytes)
      f == fieldsOf(req.body)
      checked == ~isReply \/ ~c.allowReplyToAnyone
  IN  IF ~isReply /\ c.replyOnlyDefault
      THEN [status |-> 403, error |-> "reply_only_mode"]
      ELSE IF err # ""
      THEN [status |-> IF err = "payload_too_large" THEN 413 ELSE 400, error |-> err]
      ELSE IF req.body.json = "null" THEN [status |-> 502, error |-> "TypeError"]
      ELSE IF (isReply /\ ~Truthy(f.threadId)) \/ ~Truthy(f.to) \/ ~Truthy(f.subject)
              \/ ~Truthy(f.body)
      THEN [status |-> 400, error |-> "missing_fields"]
      ELSE IF checked /\ f.to.t # "string" THEN [status |-> 502, error |-> "TypeError"]
      ELSE IF checked /\ ~allowedRecipient(f.to.v, c.recipientAllowlist,
                                           c.domainAllowlist, c.allowAllRecipients)
      THEN [status |-> 403, error |-> "recipient_not_allowed"]
      ELSE [status |-> 0, error |-> ""]

keptAttendeesWhatever(allowAttendees, requested) ==
  IF Truthy(requested) THEN requested ELSE JsUndefined

\* cwPol.allowAttendees ? (body.body.attendees || undefined) : undefined (line 218;
\* line 236 for addAttendees).
keptAttendees(allowAttendees, requested) ==
  IF allowAttendees /\ Truthy(requested) THEN requested ELSE JsUndefined

\* The route handlers behind the middleware (lines 128-270).
handle(req, principal, w, c, nowMs) ==
  LET f == fieldsOf(req.body)
      route == <<req.method, req.path>>
      gated(gate, kind, call, entry) ==
        IF gate.status = 502
        THEN onError(w, nowMs, principal, req.path, "INTERNAL_ERROR")
        ELSE IF gate.status # 0 THEN asErr(w, gate.status, gate.error)
        ELSE consumeAndCall(req, principal, w, c, nowMs, kind, call, entry)
  IN  CASE route = <<"GET", "/v1/email/unread">> ->
             emailUnread(req, principal, w, c, nowMs)
        [] route = <<"GET", "/v1/calendar/events">> ->
             calendarEvents(req, principal, w, c, nowMs)
        [] route = <<"POST", "/v1/calendar/events">> ->
             gated(calendarWriteGate(req, c, Truthy(f.calendarId) /\ Truthy(f.summary)
                                             /\ Truthy(f.start) /\ Truthy(f.end)),
                   "calendar",
                   [op |-> "createEvent", calendarId |-> f.calendarId,
                    summary |-> f.summary, start |-> f.start, end |-> f.end,
                    attendees |-> keptAttendees(c.cwAllowAttendees, f.attendees),
                    location |-> f.location, sendUpdates |-> c.cwSendUpdates],
                   [action |-> "calendar_create", calendarId |-> f.calendarId,
                    summary |-> f.summary, id |-> "id"])
        [] route = <<"PATCH", "/v1/calendar/events/evt1">> ->
             gated(calendarWriteGate(req, c, Truthy(f.calendarId)),
                   "calendar",
                   [op |-> "updateEvent", calendarId |-> f.calendarId,
                    eventId |-> "evt1", summary |-> f.summary, start |-> f.start,
                    end |-> f.end,
                    addAttendees |-> keptAttendees(c.cwAllowAttendees, f.addAttendees),
                    location |-> f.location, sendUpdates |-> c.cwSendUpdates],
                   [action |-> "calendar_update", calendarId |-> f.calendarId,
                    eventId |-> "evt1", id |-> "id"])
        [] route = <<"POST", "/v1/email/reply">> ->
             gated(outboundGate(req, c, TRUE), "send",
                   [op |-> "sendReply", threadId |-> f.threadId, to |-> f.to,
                    subject |-> f.subject, body |-> f.body],
                   [action |-> "send_reply", to |-> f.to, threadId |-> f.threadId,
                    id |-> "id"])
        [] route = <<"POST", "/v1/email/send">> ->
             gated(outboundGate(req, c, FALSE), "send",
                   [op |-> "sendNew", to |-> f.to, subject |-> f.subject,
                    body |-> f.body],
                   [action |-> "send_new", to |-> f.to, id |-> "id"])
        [] OTHER -> asErr(w, 404, "deny-by-default")

V1PathsServed ==
  {"/v1/auth/token", "/v1/email/unread", "/v1/calendar/events",
   "/v1/calendar/events/evt1", "/v1/email/reply", "/v1/email/send"}

\* The paths under /v1/ among the paths of the model.
V1Paths ==
  {"/v1/auth/token", "/v1/email/unread", "/v1/calendar/events",
   "/v1/calendar/events/evt1", "/v1/email/reply", "/v1/email/send", "/v1/nope"}

\* app.fetch(request) with the requests served one after the other: the routes in
\* the order they were registered (lines 103-270).  When the audit file cannot be
\* written (req.auditFail), appendFileSync throws in logAudit (audit.ts line 22):
\* the handlers call logAudit last before they answer, app.onError calls it again
\* (line 99) and the error leaves app.fetch, which is answered 500 by the HTTP
\* server or surfaces as a rejected promise (status 500, error "unhandled").
serve(req, w, c, nowMs, uuid) ==
  LET next(a) ==
        IF ~a.passed THEN a
        ELSE [handle(req, a.principal, a.w, c, nowMs)
                EXCEPT !.principal = a.principal, !.passed = TRUE]
               @@ [authed |-> a.authed]
      surfaced(r) ==
        IF req.auditFail /\ r.w.auditLog # w.auditLog
        THEN [r EXCEPT !.w.auditLog = w.auditLog, !.status = 500,
                       !.error = "unhandled", !.json = <<>>]
        ELSE r
  IN  surfaced(IF <<req.method, req.path>> = <<"GET", "/healthz">>
               THEN asErr(w, 200, "") @@ [authed |-> ""]
               ELSE IF <<req.method, req.path>> = <<"POST", "/v1/auth/token">>
               THEN mintToken(req, w, c, nowMs, uuid) @@ [authed |-> ""]
               ELSE IF req.path \notin V1Paths
               THEN asErr(w, 404, "deny-by-default") @@ [authed |-> ""]
               ELSE next(admit(req, w, c, nowMs)))

----------------------------------------------------------------------------
(* The server process serving requests *)

\* The query parameters the handlers read, all absent.
NoQuery == [days |-> JsUndefined, contextMode |-> JsUndefined, start |-> JsUndefined,
            end |-> JsUndefined, calendars |-> JsUndefined]

\* A request; fail says that the provider call made for it throws, raw is what the
\* provider returns otherwise, auditFail that the audit file cannot be written
\* while it is served.
Req(method, path, hdr, body) ==
  [method |-> method, path |-> path, hdr |-> hdr, body |-> body, fail |-> FALSE,
   q |-> NoQuery, raw |-> <<>>, auditFail |-> FALSE]

KeyHdr == Headers(ApiKey, <<>>, "", NoToken)

NoReq == [op |-> "none"]

\* Observation of the requests served so far: the tokens minted, the jti presented
\* as bearer credential and admitted, per principal and minute bucket the requests
\* authenticated and the requests let through by the limiter, per route and hour
\* key the consume calls that returned ok, per kind and hour key all consume calls,
\* per jti the status that answered the request it was admitted on.
NoHist ==
  [calls |-> 0, minted |-> {}, presented |-> {}, admitted |-> {}, authed |-> <<>>,
   passed |-> <<>>, consumed |-> <<>>, tried |-> <<>>, answered |-> <<>>]

\* The request is decided by its bearer token: it goes through the middleware and
\* the API key it presents, if any, is not the configured one.
ByBearer(req) ==
  /\ req.path \in V1Paths
  /\ <<req.method, req.path>> # <<"POST", "/v1/auth/token">>
  /\ req.hdr.scheme = "Bearer "
  /\ (IF req.hdr.xApiKey # <<>> THEN req.hdr.xApiKey ELSE req.hdr.xAgentKey) # cfg.apiKey

KindOf(path) == IF path \in {"/v1/email/reply", "/v1/email/send"} THEN "send" ELSE "calendar"

Observe(req, r) ==
  LET jti == req.hdr.token.p.jti
      who == <<IF r.authed # "" THEN r.authed ELSE "unknown", bucketOf(clockMs)>>
      hourKey == keys(clockMs).hourKey
  IN  [calls |-> hist.calls + 1,
       minted |-> IF r.token # NoToken THEN hist.minted \cup {r.token} ELSE hist.minted,
       presented |-> IF ByBearer(req) THEN hist.presented \cup {jti} ELSE hist.presented,
       admitted |-> IF ByBearer(req) /\ r.authed # "" THEN hist.admitted \cup {jti}
                    ELSE hist.admitted,
       authed |-> IF r.authed # "" THEN Bump(hist.authed, who) ELSE hist.authed,
       passed |-> IF r.passed THEN Bump(hist.passed, who) ELSE hist.passed,
       consumed |-> IF r.quota = "ok" THEN Bump(hist.consumed, <<req.path, hourKey>>)
                    ELSE hist.consumed,
       tried |-> IF r.quota # "none" THEN Bump(hist.tried, <<KindOf(req.path), hourKey>>)
                 ELSE hist.tried,
       answered |-> IF ByBearer(req) /\ r.authed # ""
                    THEN (jti :> r.status) @@ hist.answered ELSE hist.answered]

\* The files and maps after a request.
Apply(w) ==
  /\ replayFiles' = w.replayFiles
  /\ lastSweepMs' = [lastSweepMs EXCEPT ![1] = w.lastSweepMs]
  /\ counters' = w.counters
  /\ locks' = w.locks
  /\ memRate' = w.memRate
  /\ auditLog' = w.auditLog
  /\ providerCalls' = w.providerCalls
  /\ tokens' = w.tokens

Outcome(req, r) ==
  [op |-> "req", req |-> req, status |-> r.status, error |-> r.error,
   principal |-> r.principal, authed |-> r.authed, passed |-> r.passed,
   quota |-> r.quota, token |-> r.token, json |-> r.json,
   \* what the request found: whether its jti had been presented or admitted
   \* before, and how many requests of its principal the bucket had seen
   replayed |-> req.hdr.token.p.jti \in hist.admitted,
   first |-> req.hdr.token.p.jti \notin hist.presented,
   seen |-> LET who == <<r.authed, bucketOf(clockMs)>>
            IN  IF who \in DOMAIN hist.authed THEN hist.authed[who] ELSE 0]

\* One request served from arrival to response.
Request(req) ==
  /\ <<req.method, req.path>> = <<"POST", "/v1/auth/token">>
       => Cardinality(hist.minted) < MaxIssued
  /\ \E r \in {serve(req, World, cfg, clockMs, Uuid(Cardinality(hist.minted) + 2))} :
       /\ Apply(r.w)
       /\ last' = Outcome(req, r)
       /\ hist' = Observe(req, r)
  /\ UNCHANGED <<cfg, clockMs, ticks, proc>>

TickServer(d) ==
  /\ Tick(d)
  /\ Forget(NoReq)

----------------------------------------------------------------------------
(* SpecQuota: requests with the API key on the four mutating routes, the clock
   moving across hour and day boundaries *)

CreateBody ==
  Body([calendarId |-> JsString("primary"), summary |-> JsString("Test"),
        start |-> JsString("2025-01-15T10:00:00Z"),
        end |-> JsString("2025-01-15T11:00:00Z")])

MailBody(to) ==
  Body([threadId |-> JsString("t1"), to |-> JsString(to), subject |-> JsString("s"),
        body |-> JsString("b")])

QuotaRequests ==
  {Req("POST", "/v1/calendar/events", KeyHdr, CreateBody),
   Req("PATCH", "/v1/calendar/events/evt1", KeyHdr,
       Body([calendarId |-> JsString("primary")])),
   Req("POST", "/v1/email/reply", KeyHdr, MailBody("ok@example.com")),
   Req("POST", "/v1/email/send", KeyHdr, MailBody(" OK@Example.com ")),
   Req("POST", "/v1/email/send", KeyHdr, MailBody("eve@evil.org"))}

InitQuota ==
  /\ InitState
  /\ cfg = [BaseCfg EXCEPT !.cwEnabled = TRUE, !.replyOnlyDefault = FALSE,
                           !.allowReplyToAnyone = FALSE]
  /\ tokens = {}
  /\ last = NoReq
  /\ hist = NoHist

NextQuota ==
  \/ \E req \in QuotaRequests : hist.calls < MaxCalls /\ Request(req)
  \/ \E d \in {MsPerHour} : TickServer(d)

SpecQuota == InitQuota /\ [][NextQuota]_vars

----------------------------------------------------------------------------
(* Claims checked under SpecQuota *)

RECURSIVE SumOver(_, _)
SumOver(f, ks) ==
  IF ks = {} THEN 0
  ELSE LET k == CHOOSE x \in ks : TRUE IN f[k] + SumOver(f, ks \ {k})

\* The consume calls of a kind that returned ok within an hour key / a day key.
OkInHour(kind, hourKey) ==
  SumOver(hist.consumed,
          {k \in DOMAIN hist.consumed : KindOf(k[1]) = kind /\ k[2] = hourKey})
OkInDay(kind, dayKey) ==
  SumOver(hist.consumed,
          {k \in DOMAIN hist.consumed : KindOf(k[1]) = kind /\ <<k[2][1]>> = dayKey})

\* C4: for each counter kind the consume calls that return ok within one UTC hour
\* key never exceed maxHour and within one UTC day key never exceed maxDay; the
\* persisted hour count is the number of ok calls of the hour it is keyed to (it
\* restarts when the hour key changes) and the persisted day count the number of
\* ok calls of its day (it carries over); replies and new sends count together.
C4_QuotaWindows ==
  \A kind \in Kinds :
    /\ \A k \in DOMAIN hist.consumed :
         /\ OkInHour(kind, k[2]) <= maxHourOf(kind)
         /\ OkInDay(kind, <<k[2][1]>>) <= maxDayOf(kind)
    /\ (counters[kind].exists /\ counters[kind].hourKey = keys(clockMs).hourKey)
         => counters[kind].hourCount = OkInHour(kind, keys(clockMs).hourKey)
    /\ (counters[kind].exists /\ counters[kind].dayKey = keys(clockMs).dayKey)
         => counters[kind].dayCount = OkInDay(kind, keys(clockMs).dayKey)

C4_Witness ==
  /\ last.op = "req" /\ last.quota = "ok"
  /\ {"/v1/email/reply", "/v1/email/send"} \subseteq {k[1] : k \in DOMAIN hist.consumed}
  /\ counters["send"].hourKey = keys(clockMs).hourKey
  /\ counters["send"].hourCount = 1
  /\ counters["send"].dayCount = 3

\* C5: a consume call that is denied leaves the counter files and the lock files
\* as they were, with no lock held; its reason is hour_limit_exceeded when the ok
\* calls of the hour have reached maxHour and day_limit_exceeded otherwise; the
\* request gets 429 with that reason, no provider call and no audit entry.  A
\* calendar-create request that reaches the quota gets 429 hour_limit_exceeded
\* once maxEventsPerHour creates or updates of the hour were let through, and 200
\* while both the hour and the day have room.
C5_DeniedConsume ==
  [][(hist'.calls = hist.calls + 1 /\ last'.quota # "none") =>
       LET kind == KindOf(last'.req.path)
           inHour == OkInHour(kind, keys(clockMs).hourKey)
           inDay == OkInDay(kind, keys(clockMs).dayKey)
       IN  /\ last'.quota = "denied" =>
                /\ counters' = counters
                /\ \A k \in Kinds : locks'[k] = 0
                /\ last'.status = 429
                /\ last'.error = IF inHour >= maxHourOf(kind) THEN "hour_limit_exceeded"
                                 ELSE "day_limit_exceeded"
                /\ inHour >= maxHourOf(kind) \/ inDay >= maxDayOf(kind)
                /\ providerCalls' = providerCalls
                /\ auditLog' = auditLog
           /\ inHour >= maxHourOf(kind) =>
                last'.status = 429 /\ last'.error = "hour_limit_exceeded"
           /\ (inHour < maxHourOf(kind) /\ inDay < maxDayOf(kind)) => last'.status = 200
    ]_vars

C5_Witness ==
  /\ last.op = "req" /\ last.quota = "denied"
  /\ <<last.req.method, last.req.path>> = <<"POST", "/v1/calendar/events">>
  /\ last.status = 429 /\ last.error = "hour_limit_exceeded"
  /\ hist.consumed[<<"/v1/calendar/events", keys(clockMs).hourKey>>] = cfg.maxEventsPerHour
  /\ hist.tried[<<"calendar", keys(clockMs).hourKey>>] = cfg.maxEventsPerHour + 1

\* C28: a consume call of one kind leaves the counter file and the lock of the
\* other kind as they were, and its outcome is decided by the counter file of its
\* own kind alone: it is denied exactly when the hour count or the day count of
\* its own kind, read at the keys of the clock, has reached its own limit.  So a
\* calendar mutation is let through while the send quota is exhausted, and a send
\* while the calendar quota is exhausted.
C28_IndependentQuotas ==
  [][(hist'.calls = hist.calls + 1 /\ last'.quota # "none") =>
       LET kind == KindOf(last'.req.path)
           other == CHOOSE k \in Kinds : k # kind
           c == counters[kind]
           hour == IF c.exists /\ c.hourKey = keys(clockMs).hourKey THEN c.hourCount
                   ELSE 0
           day == IF c.exists /\ c.dayKey = keys(clockMs).dayKey THEN c.dayCount
                  ELSE 0
           full == hour >= maxHourOf(kind) \/ day >= maxDayOf(kind)
       IN  /\ counters'[other] = counters[other]
           /\ locks'[other] = locks[other]
           /\ last'.quota = (IF full THEN "denied" ELSE "ok")
           /\ last'.quota = "ok" =>
                /\ counters'[kind].hourCount = hour + 1
                /\ counters'[kind].dayCount = day + 1
    ]_vars

C28_Witness ==
  /\ last.op = "req" /\ last.quota = "ok" /\ last.status = 200
  /\ last.req.path = "/v1/calendar/events"
  /\ counters["send"].hourKey = keys(clockMs).hourKey
  /\ counters["send"].hourCount = cfg.maxSendsPerHour
  /\ hist.tried[<<"send", keys(clockMs).hourKey>>] = cfg.maxSendsPerHour + 1
  /\ counters["calendar"].hourCount = 1

\* The record a counter file holds is well formed: its hour key is its day key
\* followed by the hour, and the hour count lies between 0 and the day count.
WellFormedCounter(c) ==
  /\ Len(c.hourKey) = 2 /\ SubSeq(c.hourKey, 1, Len(c.dayKey)) = c.dayKey
  /\ 0 <= c.hourCount /\ c.hourCount <= c.dayCount

\* C39: starting without counter files and with a clock that never goes back,
\* every counter file that exists holds 0 <= hourCount <= dayCount and an hour
\* key that starts with its day key, and a consume call that returns ok saves
\* the record it loaded, rolled over to the keys of the clock, with hourCount
\* and dayCount each increased by exactly one.
C39_CounterRecord ==
  /\ [](\A kind \in Kinds : counters[kind].exists => WellFormedCounter(counters[kind]))
  /\ [][(hist'.calls = hist.calls + 1 /\ last'.quota = "ok") =>
          LET kind == KindOf(last'.req.path)
              c == counters[kind]
              hourNow == c.exists /\ c.hourKey = keys(clockMs).hourKey
              dayNow == c.exists /\ c.dayKey = keys(clockMs).dayKey
          IN  /\ counters'[kind].exists
              /\ counters'[kind].hourKey = keys(clockMs).hourKey
              /\ counters'[kind].dayKey = keys(clockMs).dayKey
              /\ counters'[kind].hourCount = (IF hourNow THEN c.hourCount ELSE 0) + 1
              /\ counters'[kind].dayCount = (IF dayNow THEN c.dayCount ELSE 0) + 1
       ]_vars
  /\ [][clockMs' >= clockMs]_vars

\* A consume call returned ok on the day after the one in which calls of its kind
\* were counted, and another one in a later hour of that day.
C39_Witness ==
  /\ last.op = "req" /\ last.quota = "ok"
  /\ LET kind == KindOf(last.req.path)
     IN  /\ counters[kind].dayKey = keys(clockMs).dayKey
         /\ counters[kind].hourKey = keys(clockMs).hourKey
         /\ counters[kind].hourCount = 1
         /\ counters[kind].dayCount = 2
         /\ OkInDay(kind, <<keys(clockMs).dayKey[1] - 1>>) >= 1

----------------------------------------------------------------------------
(* SpecFault: requests with the API key on the mutating routes while a counter
   file holds text that is not JSON, or while a lock file is left behind by a
   process that died between creating and removing it *)

MaxFaultCalls == 3

\* One counter kind is damaged; the other kind's files are as at start-up.  The
\* holder that died did so before or after saving its increment.
InitFault ==
  /\ clockMs = StartMs
  /\ ticks = 0
  /\ replayFiles = {}
  /\ lastSweepMs = [p \in Procs |-> 0]
  /\ memRate = <<>>
  /\ auditLog = <<>>
  /\ providerCalls = <<>>
  /\ proc = [p \in Procs |-> IdleProc]
  /\ cfg = [BaseCfg EXCEPT !.cwEnabled = TRUE, !.replyOnlyDefault = FALSE]
  /\ tokens = {}
  /\ last = NoReq
  /\ hist = NoHist
  /\ \E kind \in Kinds :
       LET fresh == load(NoCounterFile, StartMs)
           counted == save([fresh EXCEPT !.hourCount = 1, !.dayCount = 1])
       IN  \/ /\ counters = [k \in Kinds |->
                              IF k = kind THEN [counted EXCEPT !.parses = FALSE]
                              ELSE NoCounterFile]
              /\ locks = [k \in Kinds |-> 0]
           \/ /\ counters \in {[k \in Kinds |-> IF k = kind THEN f ELSE NoCounterFile] :
                                 f \in {NoCounterFile, counted}}
              /\ locks = [k \in Kinds |-> IF k = kind THEN NumProcs + 1 ELSE 0]

\* The operator removes a lock file that no process holds.
RemoveLock(kind) ==
  /\ locks[kind] # 0
  /\ locks' = [locks EXCEPT ![kind] = 0]
  /\ Forget(NoReq)
  /\ UNCHANGED <<cfg, clockMs, ticks, replayFiles, lastSweepMs, tokens, counters,
                 memRate, auditLog, providerCalls, proc, hist>>

NextFault ==
  \/ \E req \in {Req("POST", "/v1/email/reply", KeyHdr, MailBody("ok@example.com")),
                 Req("POST", "/v1/email/send", KeyHdr, MailBody("ok@example.com")),
                 Req("POST", "/v1/calendar/events", KeyHdr, CreateBody),
                 Req("PATCH", "/v1/calendar/events/evt1", KeyHdr,
                     Body([calendarId |-> JsString("primary")]))} :
       hist.calls < MaxFaultCalls /\ Request(req)
  \/ \E kind \in Kinds : RemoveLock(kind)
  \/ \E d \in {MsPerHour} : TickServer(d)

SpecFault == InitFault /\ [][NextFault]_vars

----------------------------------------------------------------------------
(* Claims checked under SpecFault *)

\* The step serves a request that makes a consume call.
Consumes == hist'.calls = hist.calls + 1 /\ last'.quota # "none"

\* C35: when the critical section of a consume call raises because the counter
\* file does not parse, the request is answered 502 upstream_failure with a
\* request_error audit entry and without a provider call, the counter file is
\* left as it was and no lock file stays behind.
C35_CriticalSectionRaises ==
  [][Consumes =>
       LET kind == KindOf(last'.req.path)
       IN  (counters[kind].exists /\ ~counters[kind].parses /\ locks[kind] = 0) =>
             /\ last'.quota = "threw"
             /\ last'.status = 502 /\ last'.error = "upstream_failure"
             /\ counters' = counters
             /\ locks' = locks /\ locks'[kind] = 0
             /\ providerCalls' = providerCalls
             /\ Len(auditLog') = Len(auditLog) + 1
             /\ auditLog'[Len(auditLog')].action = "request_error"
    ]_vars

\* A second request on the damaged counter found the lock free and failed in the
\* same way, while the other kind served a request.
C35_Witness ==
  /\ last.op = "req" /\ last.quota = "threw" /\ last.status = 502
  /\ counters[KindOf(last.req.path)].exists /\ ~counters[KindOf(last.req.path)].parses
  /\ locks = [k \in Kinds |-> 0]
  /\ hist.calls = 3
  /\ Len(providerCalls) = 1
  /\ Len(auditLog) = 3


\* C38: while the lock file of a counter kind exists and no live process holds
\* it, every request that makes a consume call of that kind is answered 502
\* upstream_failure, its call having thrown, without a provider call; the counter
\* file of the kind is not modified, and the lock file stays until it is removed
\* from outside the server.
C38_StaleLockBlocksKind ==
  [][\A kind \in Kinds :
       locks[kind] # 0 =>
         /\ counters'[kind] = counters[kind]
         /\ locks'[kind] = 0 => (hist' = hist /\ last'.op = "none")
         /\ (Consumes /\ KindOf(last'.req.path) = kind) =>
              /\ last'.quota = "threw"
              /\ last'.status = 502 /\ last'.error = "upstream_failure"
              /\ locks' = locks
              /\ providerCalls' = providerCalls
    ]_vars

\* Across an hour boundary the requests of the blocked kind failed; after the
\* lock file was removed the next one was served and counted.
C38_Witness ==
  /\ last.op = "req" /\ last.quota = "ok" /\ last.status = 200
  /\ hist.calls = 3 /\ ticks > 0
  /\ \E kind \in Kinds :
       /\ KindOf(last.req.path) = kind
       /\ DOMAIN hist.tried = {<<kind, keys(StartMs).hourKey>>, <<kind, keys(clockMs).hourKey>>}
       /\ hist.tried[<<kind, keys(StartMs).hourKey>>] = 1
       /\ counters[kind].hourCount = 1 /\ counters[kind].dayCount = 2
  /\ Len(providerCalls) = 1

----------------------------------------------------------------------------
(* SpecRate: concurrent requests in the server process.  The middleware runs to
   its await next() in one piece; the handler of a request that got through runs
   later, other requests arriving in between *)

RateLimits == 0..2

InitRate ==
  /\ InitState
  /\ \E n \in RateLimits :
       cfg = [BaseCfg EXCEPT !.rateLimitPerMinute = n, !.tokenTtlSeconds = 100]
  /\ tokens = {issueSignedToken("agent-1", cfg, StartMs, Uuid(1)),
               issueSignedToken("agent-1", cfg, StartMs, Uuid(2))}
  /\ last = NoReq
  /\ hist = NoHist

RateRequests ==
  {Req("GET", "/v1/email/unread", KeyHdr, NoBody)}
    \cup {Req("GET", "/v1/nope", Bearer(t), NoBody) : t \in tokens}

\* A request arrives and goes through the middleware (lines 116-125).
Arrive(p, req) ==
  /\ proc[p] = IdleProc
  /\ hist.calls < MaxCalls
  /\ \E a \in {admit(req, World, cfg, clockMs)} :
       /\ Apply(a.w)
       /\ last' = Outcome(req, a)
       /\ hist' = Observe(req, a)
       /\ proc' = [proc EXCEPT ![p] = IF a.passed
                                       THEN [pc |-> "handler", req |-> req,
                                             principal |-> a.principal]
                                       ELSE IdleProc]
  /\ UNCHANGED <<cfg, clockMs, ticks>>

\* The handler of a request that passed the middleware runs and responds.
Complete(p) ==
  /\ proc[p] # IdleProc
  /\ \E r \in {handle(proc[p].req, proc[p].principal, World, cfg, clockMs)} : Apply(r.w)
  /\ proc' = [proc EXCEPT ![p] = IdleProc]
  /\ Forget(NoReq)
  /\ UNCHANGED <<cfg, clockMs, ticks, hist>>

NextRate ==
  \/ \E p \in Procs, req \in RateRequests : Arrive(p, req)
  \/ \E p \in Procs : Complete(p)
  \/ \E d \in {MsPerMinute} : TickServer(d)

SpecRate == InitRate /\ [][NextRate]_vars

----------------------------------------------------------------------------
(* SpecSpent: bearer tokens presented on requests that the limiter, the router or
   a handler refuses, and presented again *)

MaxSpentCalls == 3

SpentRequests ==
  {r \in UNION {{Req("GET", "/v1/nope", Bearer(t), NoBody),
                  Req("POST", "/v1/email/send", Bearer(t), MailBody("eve@evil.org")),
                  Req("GET", "/v1/calendar/events", Bearer(t), NoBody),
                  [Req("GET", "/v1/calendar/events", Bearer(t), NoBody)
                     EXCEPT !.fail = TRUE]} : t \in tokens} : TRUE}

NextSpent ==
  \/ \E req \in SpentRequests : hist.calls < MaxSpentCalls /\ Request(req)
  \/ \E d \in {MsPerMinute} : TickServer(d)

SpecSpent == InitRate /\ [][NextSpent]_vars

----------------------------------------------------------------------------
(* Claims checked under SpecRate *)

\* C6: for every principal and minute bucket the requests that pass the limiter
\* never exceed rateLimitPerMinute, for every limit >= 0 and with requests in
\* flight; an authenticated request that finds the bucket already at the limit
\* gets 429 rate_limited and reaches no handler.
C6_PerPrincipalLimit ==
  /\ \A k \in DOMAIN hist.passed : hist.passed[k] <= cfg.rateLimitPerMinute
  /\ (last.op = "req" /\ last.authed # "" /\ last.seen >= cfg.rateLimitPerMinute)
       => (last.status = 429 /\ last.error = "rate_limited" /\ ~last.passed)

\* C37: a bearer token is spent by the request that presents it, whatever the
\* answer: whether it is authenticated does not depend on the limiter or the
\* route, once it is authenticated its replay marker is on disk, also when the
\* request is then answered 429 rate_limited, 404 deny-by-default or a 4xx or 502
\* of a handler, and every later request with the same token is answered 401
\* unauthorized.
C37_TokenSpentBeforeRateAndRoute ==
  (last.op = "req" /\ ByBearer(last.req)) =>
    LET t == last.req.hdr.token
    IN  /\ (last.first /\ t.p.exp > NowSec(clockMs)) => last.authed = t.p.sub.v
        /\ last.authed # "" =>
              /\ markerExists(replayFiles, t.p.jti)
              /\ last.status \in {200, 403, 404, 429, 502}
        /\ last.replayed =>
              (last.status = 401 /\ last.error = "unauthorized" /\ last.authed = "")

\* Tokens whose first requests were answered 429 and 404 have been presented, and
\* the one answered 429 is presented again before its expiry: the answer is 401.
C37_Witness ==
  /\ last.op = "req" /\ ByBearer(last.req)
  /\ last.replayed
  /\ hist.answered[last.req.hdr.token.p.jti] = 429
  /\ 404 \in {hist.answered[j] : j \in DOMAIN hist.answered}
  /\ last.req.hdr.token.p.exp > NowSec(clockMs)
  /\ last.status = 401

----------------------------------------------------------------------------
(* SpecDeny: requests on the routes behind the middleware, most of them without a
   valid credential *)

MaxDenyCalls == 2

InitDeny ==
  /\ InitState
  /\ cfg = [BaseCfg EXCEPT !.cwEnabled = TRUE]
  /\ \E t \in JtiTokens(cfg) \cup TimeTokens(cfg) \cup BadTokens(cfg) :
       tokens = {issueSignedToken("agent-1", cfg, StartMs, Uuid(1)), t}
  /\ last = NoReq
  /\ hist = NoHist

DenyHeaders ==
  {Headers(<<>>, <<>>, "", NoToken), Headers(<<>>, <<"k", "1", "2">>, "", NoToken)}
    \cup {Headers(k, <<>>, "", NoToken) : k \in WrongKeys}
    \cup {Bearer(t) : t \in tokens}

DenyRequests ==
  {Req("GET", "/v1/calendar/events", h, NoBody) : h \in DenyHeaders \cup {KeyHdr}}
    \cup {Req("POST", "/v1/calendar/events", h, CreateBody) : h \in DenyHeaders}
    \cup {Req("GET", "/v1/auth/token", Headers(<<>>, <<>>, "", NoToken), NoBody)}

NextDeny ==
  \/ \E req \in DenyRequests : hist.calls < MaxDenyCalls /\ Request(req)
  \/ \E d \in {MsPerSec} : TickServer(d)

SpecDeny == InitDeny /\ [][NextDeny]_vars

----------------------------------------------------------------------------
(* Claims checked under SpecDeny *)

\* The request carries no valid credential: the API key it presents, if any, is
\* not the configured one, and it has no bearer token or one that is malformed,
\* badly signed, expired or replayed.
NoValidCredential(req) ==
  LET t == req.hdr.token
  IN  /\ (IF req.hdr.xApiKey # <<>> THEN req.hdr.xApiKey ELSE req.hdr.xAgentKey)
           # cfg.apiKey
      /\ \/ req.hdr.scheme # "Bearer "
         \/ t.nparts # 3 \/ ~t.p.json
         \/ t.s \notin {Hmac(signingKeys(cfg)[i], t.h, t.p) : i \in 1..Len(signingKeys(cfg))}
         \/ t.p.exp <= NowSec(clockMs)
         \/ t.p.jti \in hist.admitted

\* C7: a request to a /v1/* route other than POST /v1/auth/token that carries no
\* valid credential gets 401 unauthorized, appends exactly one audit entry, an
\* auth_deny with principal 'unknown', and changes no rate counter, no quota
\* counter and no provider call.
C7_DeniedWithoutEffect ==
  [][(/\ hist'.calls = hist.calls + 1
      /\ last'.req.path \in V1Paths
      /\ <<last'.req.method, last'.req.path>> # <<"POST", "/v1/auth/token">>
      /\ NoValidCredential(last'.req)) =>
       /\ last'.status = 401 /\ last'.error = "unauthorized"
       /\ Len(auditLog') = Len(auditLog) + 1
       /\ SubSeq(auditLog', 1, Len(auditLog)) = auditLog
       /\ auditLog'[Len(auditLog')].action = "auth_deny"
       /\ auditLog'[Len(auditLog')].principal = "unknown"
       /\ memRate' = memRate
       /\ counters' = counters
       /\ providerCalls' = providerCalls
    ]_vars

----------------------------------------------------------------------------
(* SpecMint: tokens minted by POST /v1/auth/token and presented afterwards, and
   requests served while the audit file cannot be written *)

MintBodies ==
  {Body([sub |-> JsString("agent-1")]), Body([sub |-> JsString("")]),
   Body([sub |-> JsNumber("7")]), NoBody,
   [NoBody EXCEPT !.declared = 1, !.size = 1, !.json = "invalid"],
   [Body([sub |-> JsString("agent-1")]) EXCEPT !.declared = 3, !.size = 3]}

InitMint ==
  /\ InitState
  /\ cfg = BaseCfg
  /\ tokens = {}
  /\ last = NoReq
  /\ hist = NoHist

MintRequests ==
  {Req("POST", "/v1/auth/token", KeyHdr, b) : b \in MintBodies}
    \cup {Req("POST", "/v1/auth/token", Headers(<<"x">>, <<>>, "", NoToken), NoBody)}
    \cup {Req("GET", "/v1/calendar/events", Bearer(t), NoBody) : t \in tokens}
    \cup {[Req("GET", "/v1/calendar/events", h, NoBody) EXCEPT !.auditFail = TRUE] :
            h \in {KeyHdr, Headers(<<>>, <<>>, "", NoToken)}}
    \cup {[Req("GET", "/v1/calendar/events", KeyHdr, NoBody)
             EXCEPT !.auditFail = TRUE, !.fail = TRUE]}

NextMint ==
  \/ \E req \in MintRequests : hist.calls < MaxCalls /\ Request(req)
  \/ \E d \in {MsPerSec} : TickServer(d)

SpecMint == InitMint /\ [][NextMint]_vars

----------------------------------------------------------------------------
(* SpecRotate: tokens minted and presented while the signing key is rotated,
   and tokens signed with keys that are not configured *)

MaxRotateCalls == 3

\* The signing keys the operator configures, one after the other.
KeySuccession == <<"sign", "sign-2", "sign-3">>

RotateRequests ==
  {Req("POST", "/v1/auth/token", KeyHdr, Body([sub |-> JsString("agent-1")]))}
    \cup {Req("GET", "/v1/calendar/events", Bearer(t), NoBody) : t \in tokens}
    \cup {Req("GET", "/v1/calendar/events",
               Bearer(issueSignedToken("agent-1", [BaseCfg EXCEPT !.tokenSigningKey = k],
                                       StartMs, Uuid(9))), NoBody) :
            k \in {"", "other-key"}}

\* The signing key is rotated: the key in use becomes the previous key, and the
\* server starts again with the new configuration.
Rotate ==
  \E i \in 1..(Len(KeySuccession) - 1) :
    /\ cfg.tokenSigningKey = KeySuccession[i]
    /\ cfg' = [cfg EXCEPT !.previousTokenSigningKey = cfg.tokenSigningKey,
                          !.tokenSigningKey = KeySuccession[i + 1]]
    /\ lastSweepMs' = [lastSweepMs EXCEPT ![1] = 0]
    /\ memRate' = <<>>
    /\ Forget(NoReq)
    /\ UNCHANGED <<clockMs, ticks, replayFiles, tokens, counters, locks, auditLog,
                   providerCalls, proc, hist>>

NextRotate ==
  \/ \E req \in RotateRequests : hist.calls < MaxRotateCalls /\ Request(req)
  \/ Rotate
  \/ \E d \in {MsPerSec} : TickServer(d)

SpecRotate == InitMint /\ [][NextRotate]_vars

----------------------------------------------------------------------------
(* Claims checked under SpecMint *)

\* C8: the token that POST /v1/auth/token returns carries the string sub of the
\* request body, or 'agent' when sub is not a string; presented for the first
\* time and before its expiry it is admitted, with its subject as principal.
C8_MintedTokenAdmitted ==
  /\ (last.op = "req" /\ last.token # NoToken) =>
       last.token.p.sub = JsString(IF last.req.body.f.sub.t = "string"
                                   THEN last.req.body.f.sub.v ELSE "agent")
  /\ (/\ last.op = "req" /\ ByBearer(last.req)
      /\ last.req.hdr.token \in hist.minted
      /\ last.first
      /\ last.req.hdr.token.p.exp > NowSec(clockMs)) =>
       (last.status # 401 /\ last.authed = last.req.hdr.token.p.sub.v)

\* C26: every request, whatever fails while it is served (the provider, the replay
\* store, a quota lock, a counter file, the audit file), is answered with a status
\* among 200, 400, 401, 403, 404, 413, 429 and 502: no failure surfaces as a 500
\* or as an unhandled error.
C26_NoServerError ==
  last.op = "req" => last.status \in {200, 400, 401, 403, 404, 413, 429, 502}

\* The signature of the presented token is the HMAC of its header and payload
\* under key.
SignedWith(key) ==
  last.req.hdr.token.s = Hmac(key, last.req.hdr.token.h, last.req.hdr.token.p)

\* The presented token verifies under the current key or under the previous key,
\* if one is configured.
SignedWithConfigured ==
  \/ SignedWith(cfg.tokenSigningKey)
  \/ cfg.previousTokenSigningKey # "" /\ SignedWith(cfg.previousTokenSigningKey)

\* The last request carried a bearer token signed with a key that is neither the
\* current signing key nor the non-empty previous one.
UnconfiguredKeyPresented ==
  /\ last.op = "req" /\ ByBearer(last.req) /\ ~last.req.auditFail
  /\ ~SignedWithConfigured

KeyRotationOutcome ==
  (last.op = "req" /\ ByBearer(last.req) /\ ~last.req.auditFail) =>
    LET t == last.req.hdr.token
    IN  /\ (/\ SignedWithConfigured /\ Truthy(t.p.sub)
            /\ last.first /\ t.p.exp > NowSec(clockMs))
             => (last.status # 401 /\ last.authed = t.p.sub.v
                 /\ markerExists(replayFiles, t.p.jti))
        /\ last.replayed => (last.status = 401 /\ last.authed = "")
        /\ ~SignedWithConfigured =>
             /\ last.status = 401 /\ last.error = "unauthorized" /\ last.authed = ""
             /\ auditLog[Len(auditLog)].action = "auth_deny"
             /\ auditLog[Len(auditLog)].reason = "invalid_token"

\* C36: a bearer token with a non-empty subject that is presented for the first
\* time before its expiry is admitted if it is signed with the current signing
\* key or with the non-empty previous one, also when it was issued before the
\* rotation; presented again it is refused; a token signed with any other key,
\* the empty key included, is denied with reason invalid_token, and its request
\* writes no replay marker and removes none.
C36_KeyRotation ==
  /\ []KeyRotationOutcome
  /\ [][UnconfiguredKeyPresented' => replayFiles' = replayFiles]_vars

\* A token minted before the rotation is admitted after it, under the previous key.
C36_Witness ==
  /\ last.op = "req" /\ ByBearer(last.req)
  /\ last.req.hdr.token \in hist.minted
  /\ cfg.previousTokenSigningKey = "sign" /\ cfg.tokenSigningKey = "sign-2"
  /\ SignedWith(cfg.previousTokenSigningKey) /\ ~SignedWith(cfg.tokenSigningKey)
  /\ last.status = 200 /\ last.authed = "agent-1"
  /\ ticks > 0

----------------------------------------------------------------------------
(* SpecPolicy: the server under several policy configurations, requests on every
   data route with allowed and refused recipients and calendars, bodies of every
   shape and size, provider calls that throw, requests refused at admission, and
   requests that no route serves *)

MaxPolicyCalls == 2

\* Written calendars open on the read list / closed / restricted to an allowlist,
\* attendees dropped / kept, sendUpdates none / all;
\* replies checked / free; new messages allowed / reply-only; one send an hour or
\* two.
InitPolicy ==
  /\ InitState
  /\ cfg \in {[BaseCfg EXCEPT !.cwEnabled = TRUE, !.replyOnlyDefault = FALSE,
                               !.allowReplyToAnyone = FALSE, !.maxSendsPerHour = 1],
               BaseCfg,
               [BaseCfg EXCEPT !.cwEnabled = TRUE, !.cwAllowedCalendarIds = {"secret"},
                               !.cwAllowAttendees = TRUE, !.cwSendUpdates = "all",
                               !.replyOnlyDefault = FALSE]}
  /\ tokens = {}
  /\ last = NoReq
  /\ hist = NoHist

\* The routes that read a body.
BodyRoutes ==
  {<<"POST", "/v1/auth/token">>, <<"POST", "/v1/email/reply">>,
   <<"POST", "/v1/email/send">>, <<"POST", "/v1/calendar/events">>,
   <<"PATCH", "/v1/calendar/events/evt1">>}

PolicyRequests ==
  LET guests == [t |-> "array", v |-> <<"spam@evil.com">>]
      create == [CreateBody EXCEPT !.f.attendees = guests,
                                   !.f.sendUpdates = JsString("externalOnly")]
      update == Body([calendarId |-> JsString("primary"), addAttendees |-> guests,
                      sendUpdates |-> JsString("externalOnly")])
      shaped(json) == [NoBody EXCEPT !.declared = 1, !.size = 1, !.json = json]
      ok == {Req("POST", "/v1/email/reply", KeyHdr, MailBody("ok@example.com")),
             Req("POST", "/v1/email/send", KeyHdr, MailBody(" OK@Example.com ")),
             Req("POST", "/v1/calendar/events", KeyHdr, create),
             Req("PATCH", "/v1/calendar/events/evt1", KeyHdr, update),
             Req("GET", "/v1/email/unread", KeyHdr, NoBody),
             Req("GET", "/v1/calendar/events", KeyHdr, NoBody)}
  IN  ok \cup {[r EXCEPT !.fail = TRUE] : r \in ok}
         \cup {Req("POST", "/v1/email/reply", KeyHdr, MailBody("eve@evil.org")),
               Req("POST", "/v1/email/send", KeyHdr, MailBody("eve@evil.org")),
               Req("POST", "/v1/email/send", KeyHdr,
                   [MailBody("x") EXCEPT !.f.to = JsNumber("7")]),
               Req("POST", "/v1/email/send", KeyHdr, Body([to |-> JsString("x")])),
               Req("POST", "/v1/calendar/events", KeyHdr,
                   [create EXCEPT !.f.calendarId = JsString("secret")]),
               Req("PATCH", "/v1/calendar/events/evt1", KeyHdr,
                   [update EXCEPT !.f.calendarId = JsString("secret")]),
               Req("POST", "/v1/calendar/events", KeyHdr,
                   [CreateBody EXCEPT !.size = BaseCfg.maxPayloadBytes + 1]),
               Req("POST", "/v1/email/send", Headers(<<>>, <<>>, "", NoToken),
                   MailBody("ok@example.com")),
               Req("POST", "/v1/auth/token", Headers(<<"x">>, <<>>, "", NoToken),
                   NoBody)}
         \cup {Req(route[1], route[2], KeyHdr, shaped("invalid")) : route \in BodyRoutes}
         \cup {Req("POST", "/v1/email/reply", KeyHdr,
                   [NoBody EXCEPT !.declared = BaseCfg.maxPayloadBytes + 1, !.size = 1,
                                  !.json = "invalid"]),
               Req("POST", "/v1/email/reply", KeyHdr,
                   [MailBody("ok@example.com")
                      EXCEPT !.declared = BaseCfg.maxPayloadBytes,
                             !.size = BaseCfg.maxPayloadBytes]),
               Req("POST", "/v1/email/reply", KeyHdr, shaped("null")),
               Req("POST", "/v1/calendar/events", KeyHdr, shaped("null")),
               Req("POST", "/v1/auth/token", KeyHdr, shaped("null")),
               Req("POST", "/v1/email/send", KeyHdr, shaped("array")),
               Req("PATCH", "/v1/calendar/events/evt1", KeyHdr, shaped("scalar"))}
         \cup {Req(route[1], route[2], h, NoBody) :
                 route \in {<<"GET", "/v1/nope">>, <<"GET", "/nope">>,
                            <<"GET", "/v1/email/send">>},
                 h \in {KeyHdr, Headers(<<>>, <<>>, "", NoToken)}}
         \cup {Req("POST", "/v1/email/reply",
                   Bearer(issueSignedToken("agent-1", BaseCfg, StartMs, Uuid(1))),
                   MailBody("ok@example.com"))}

NextPolicy ==
  \/ \E req \in PolicyRequests : hist.calls < MaxPolicyCalls /\ Request(req)
  \/ \E d \in {MsPerMinute} : ticks = 0 /\ TickServer(d)

SpecPolicy == InitPolicy /\ [][NextPolicy]_vars

----------------------------------------------------------------------------
(* Claims checked under SpecPolicy *)

\* The persisted hour count of a kind, read at the hour key of the clock.
HourCountNow(kind) ==
  IF counters[kind].exists /\ counters[kind].hourKey = keys(clockMs).hourKey
  THEN counters[kind].hourCount ELSE 0

\* C11 as stated: the persisted hourCount of a kind equals the number of requests
\* that reached the quota step of that kind within the hour it is keyed to,
\* whatever became of them.
C11_CountsEveryAttempt ==
  \A kind \in Kinds :
    counters[kind].exists =>
      counters[kind].hourCount = hist.tried[<<kind, counters[kind].hourKey>>]

\* C11: on the reply, send, create and update routes the provider is called only
\* by a request whose consume call returned ok, and that request has raised the
\* hour count of its kind by one whether the provider call then succeeds or
\* throws (502): the persisted hourCount is the number of requests of the hour
\* whose consume call returned ok, however many provider calls failed.  A request
\* denied at the quota step leaves the counters as they were and calls no provider.
C11_NoRefund ==
  [][(hist'.calls = hist.calls + 1 /\ last'.quota # "none") =>
       LET kind == KindOf(last'.req.path)
       IN  /\ last'.quota = "ok" =>
                /\ counters'[kind].hourCount = HourCountNow(kind) + 1
                /\ Len(providerCalls') = Len(providerCalls) + 1
                /\ last'.status = IF last'.req.fail THEN 502 ELSE 200
           /\ last'.quota = "denied" =>
                counters' = counters /\ providerCalls' = providerCalls
           /\ (\A k \in Kinds :
                 (counters[k].exists /\ counters[k].hourKey = keys(clockMs).hourKey) =>
                   counters[k].hourCount = OkInHour(k, keys(clockMs).hourKey))'
    ]_vars

C11_Witness ==
  /\ last.op = "req" /\ last.req.fail /\ last.quota = "ok" /\ last.status = 502
  /\ <<last.req.method, last.req.path>> = <<"PATCH", "/v1/calendar/events/evt1">>
  /\ counters["calendar"].hourCount = 2
  /\ hist.tried[<<"calendar", keys(clockMs).hourKey>>] = 2
  /\ Len(providerCalls) = 2

\* C12: a request whose provider call throws, on any of the six data routes, is
\* answered 502 upstream_failure; it appends exactly one audit entry, of action
\* request_error with the path of the request, and so none of the entries that
\* record a served request.
C12_ProviderFailure ==
  [][(/\ hist'.calls = hist.calls + 1
      /\ last'.req.fail
      /\ Len(providerCalls') > Len(providerCalls)) =>
       /\ last'.status = 502 /\ last'.error = "upstream_failure"
       /\ Len(auditLog') = Len(auditLog) + 1
       /\ SubSeq(auditLog', 1, Len(auditLog)) = auditLog
       /\ auditLog'[Len(auditLog')].action = "request_error"
       /\ auditLog'[Len(auditLog')].path = last'.req.path
       /\ auditLog'[Len(auditLog')].action \notin
            {"send_reply", "send_new", "calendar_create", "calendar_update",
             "email_unread", "calendar_events"}
    ]_vars

C12_Witness ==
  /\ last.op = "req" /\ last.req.fail /\ last.status = 502
  /\ last.req.path = "/v1/email/unread"
  /\ Len(providerCalls) = 2 /\ providerCalls[2].op = "getUnreadEmails"
  /\ Len(auditLog) = 2
  /\ auditLog[1].action = "send_reply" /\ auditLog[2].action = "request_error"

\* C13: a request refused for authentication (on the token route too), for its
\* recipient, by reply-only mode, because calendar writing is disabled, for its
\* calendar, or by an hour or day quota limit has appended an audit entry by the
\* time it is answered.
C13_DenialsAudited ==
  [][(/\ hist'.calls = hist.calls + 1
      /\ last'.status \in {401, 403, 429}
      /\ last'.error \in {"unauthorized", "recipient_not_allowed", "reply_only_mode",
                          "calendar_write_disabled", "calendar_not_allowed",
                          "hour_limit_exceeded", "day_limit_exceeded"}) =>
       /\ Len(auditLog') = Len(auditLog) + 1
       /\ SubSeq(auditLog', 1, Len(auditLog)) = auditLog
    ]_vars

\* C14: the provider's sendNew is called only when replyOnlyDefault is false and
\* the recipient passes allowedRecipient, its sendReply only when
\* allowReplyToAnyone is true or the recipient passes allowedRecipient.  An
\* admitted request on the send route under replyOnlyDefault gets 403
\* reply_only_mode whatever it carries; an admitted request with all required
\* fields whose recipient is checked and does not pass gets 403
\* recipient_not_allowed; in both cases the send counter and the provider are left
\* alone.
C14_RecipientGate ==
  [][(/\ hist'.calls = hist.calls + 1
      /\ last'.passed
      /\ last'.req.path \in {"/v1/email/reply", "/v1/email/send"}) =>
       LET f == last'.req.body.f
           isReply == last'.req.path = "/v1/email/reply"
           passes == f.to.t = "string" /\
                     allowedRecipient(f.to.v, cfg.recipientAllowlist, cfg.domainAllowlist,
                                      cfg.allowAllRecipients)
           called == Len(providerCalls') > Len(providerCalls)
           complete == /\ parseJsonLimited(last'.req.body, cfg.maxPayloadBytes) = ""
                       /\ Truthy(f.to) /\ Truthy(f.subject) /\ Truthy(f.body)
                       /\ isReply => Truthy(f.threadId)
           refused == /\ complete /\ ~passes
                      /\ IF isReply THEN ~cfg.allowReplyToAnyone
                         ELSE ~cfg.replyOnlyDefault
       IN  /\ called =>
                /\ providerCalls'[Len(providerCalls')].op =
                     (IF isReply THEN "sendReply" ELSE "sendNew")
                /\ IF isReply THEN cfg.allowReplyToAnyone \/ passes
                   ELSE ~cfg.replyOnlyDefault /\ passes
           /\ (~isReply /\ cfg.replyOnlyDefault) =>
                last'.status = 403 /\ last'.error = "reply_only_mode"
           /\ refused => last'.status = 403 /\ last'.error = "recipient_not_allowed"
           /\ last'.status = 403 => (counters' = counters /\ ~called)
    ]_vars

\* C20: the provider's createEvent / updateEvent is called only when calendar
\* writing is enabled and the calendarId of the request is in the write allowlist
\* if that is non-empty, else in the configured calendar ids.  With writing
\* disabled an admitted request on these routes gets 403 calendar_write_disabled
\* whatever its body, oversized included; with writing enabled a request with the
\* required fields and another calendarId gets 403 calendar_not_allowed; in both
\* cases the calendar counter and the provider are left alone.
C20_CalendarWriteGate ==
  [][(/\ hist'.calls = hist.calls + 1
      /\ last'.passed
      /\ <<last'.req.method, last'.req.path>> \in
           {<<"POST", "/v1/calendar/events">>, <<"PATCH", "/v1/calendar/events/evt1">>}) =>
       LET f == last'.req.body.f
           isCreate == last'.req.method = "POST"
           writable == IF cfg.cwAllowedCalendarIds # {} THEN cfg.cwAllowedCalendarIds
                       ELSE cfg.calendarIds
           allowed == f.calendarId.t = "string" /\ f.calendarId.v \in writable
           called == Len(providerCalls') > Len(providerCalls)
           complete == /\ parseJsonLimited(last'.req.body, cfg.maxPayloadBytes) = ""
                       /\ Truthy(f.calendarId)
                       /\ isCreate => (Truthy(f.summary) /\ Truthy(f.start) /\ Truthy(f.end))
       IN  /\ called =>
                /\ providerCalls'[Len(providerCalls')].op =
                     (IF isCreate THEN "createEvent" ELSE "updateEvent")
                /\ cfg.cwEnabled /\ allowed
           /\ ~cfg.cwEnabled =>
                last'.status = 403 /\ last'.error = "calendar_write_disabled"
           /\ (cfg.cwEnabled /\ complete /\ ~allowed) =>
                last'.status = 403 /\ last'.error = "calendar_not_allowed"
           /\ last'.status = 403 => (counters' = counters /\ ~called)
    ]_vars

C20_Witness ==
  /\ last.op = "req" /\ last.status = 403 /\ last.error = "calendar_not_allowed"
  /\ last.req.method = "PATCH"
  /\ last.req.body.f.calendarId = JsString("primary")
  /\ cfg.cwAllowedCalendarIds = {"secret"}
  /\ Len(providerCalls) = 1 /\ providerCalls[1].op = "createEvent"
  /\ providerCalls[1].calendarId = JsString("secret")
  /\ counters["calendar"].hourCount = 1

\* C21: whatever sendUpdates, attendees and addAttendees the body of a calendar
\* create or update request holds, the provider call made for it carries the
\* sendUpdates of the policy; with allowAttendees false it carries no attendees
\* (create) and no addAttendees (update), with allowAttendees true those of the
\* body; and a request that passes the gates and the quota is carried out: the
\* provider is called and the answer is 200 unless the provider throws.
C21_PolicyValuesOnCall ==
  [][(/\ hist'.calls = hist.calls + 1
      /\ last'.passed
      /\ <<last'.req.method, last'.req.path>> \in
           {<<"POST", "/v1/calendar/events">>, <<"PATCH", "/v1/calendar/events/evt1">>}) =>
       LET f == last'.req.body.f
           isCreate == last'.req.method = "POST"
           called == Len(providerCalls') > Len(providerCalls)
           call == providerCalls'[Len(providerCalls')]
           asked == IF isCreate THEN f.attendees ELSE f.addAttendees
           carried == IF isCreate THEN call.attendees ELSE call.addAttendees
       IN  /\ called =>
                /\ call.sendUpdates = cfg.cwSendUpdates
                /\ carried = IF cfg.cwAllowAttendees /\ Truthy(asked) THEN asked
                             ELSE JsUndefined
                /\ call.calendarId = f.calendarId
           /\ last'.quota = "ok" =>
                /\ called
                /\ last'.status = IF last'.req.fail THEN 502 ELSE 200
           /\ (Truthy(asked) \/ Truthy(f.sendUpdates)) => last'.status # 400
    ]_vars

C21_Witness ==
  /\ last.op = "req" /\ last.status = 200 /\ last.req.method = "POST"
  /\ ~cfg.cwAllowAttendees /\ cfg.cwSendUpdates = "none"
  /\ Truthy(last.req.body.f.attendees)
  /\ last.req.body.f.sendUpdates = JsString("externalOnly")
  /\ Len(providerCalls) = 1 /\ providerCalls[1].op = "createEvent"
  /\ providerCalls[1].attendees = JsUndefined
  /\ providerCalls[1].sendUpdates = "none"

\* The last request is on a route that reads a body / presents the API key.
OnBodyRoute == last.op = "req" /\ <<last.req.method, last.req.path>> \in BodyRoutes
WithApiKey ==
  (IF last.req.hdr.xApiKey # <<>> THEN last.req.hdr.xApiKey ELSE last.req.hdr.xAgentKey)
    = cfg.apiKey

\* The declared or the streamed size of the last request's body exceeds the limit.
Oversize ==
  \/ last.req.body.declared > cfg.maxPayloadBytes
  \/ last.req.body.size > cfg.maxPayloadBytes

\* The handler of the last request came to read the body: on the token route the
\* API key was accepted; behind the middleware the request was admitted and the
\* route is not closed by policy (reply-only mode, calendar writing disabled).
BodyRead ==
  CASE last.req.path = "/v1/auth/token" -> WithApiKey
    [] last.req.path = "/v1/email/send" -> last.passed /\ ~cfg.replyOnlyDefault
    [] last.req.path = "/v1/email/reply" -> last.passed
    [] OTHER -> last.passed /\ cfg.cwEnabled

\* C22 as stated: every request to a POST or PATCH route whose body exceeds
\* maxPayloadBytes, declared or streamed, is answered 413 payload_too_large.
C22_OversizeAlways413 ==
  (OnBodyRoute /\ Oversize) => (last.status = 413 /\ last.error = "payload_too_large")

\* C22: a request to a POST or PATCH route whose handler comes to read the body
\* is answered 413 payload_too_large when the declared Content-Length or the
\* streamed size exceeds maxPayloadBytes, whether or not the text would parse, and
\* touches no quota; a body of exactly maxPayloadBytes bytes is not answered 413.
\* A request refused before the body is read (401, 403, 429) is never answered
\* 413.
C22_PayloadLimit ==
  OnBodyRoute =>
    /\ (BodyRead /\ Oversize) =>
         /\ last.status = 413 /\ last.error = "payload_too_large"
         /\ last.quota = "none"
    /\ (BodyRead /\ ~Oversize) => last.status # 413
    /\ ~BodyRead => last.status \in {401, 403, 429}

C22_Witness ==
  /\ OnBodyRoute /\ BodyRead
  /\ last.req.body.declared = cfg.maxPayloadBytes + 1
  /\ last.req.body.size <= cfg.maxPayloadBytes
  /\ last.req.body.json = "invalid"
  /\ last.status = 413
  /\ Len(providerCalls) = 1 /\ providerCalls[1].op = "sendReply"

\* C23 as stated: every authenticated request to a POST or PATCH route whose body
\* is within the size limit and is not well-formed JSON is answered 400
\* invalid_json, under every policy configuration.
C23_MalformedAlways400 ==
  (/\ OnBodyRoute
   /\ IF last.req.path = "/v1/auth/token" THEN WithApiKey ELSE last.authed # ""
   /\ ~Oversize
   /\ last.req.body.json = "invalid") =>
    (last.status = 400 /\ last.error = "invalid_json")

\* C23: a request to a POST or PATCH route whose handler comes to read the body,
\* with a body within the size limit that is not well-formed JSON, is answered
\* 400 invalid_json and touches no quota; on a route closed by policy the answer
\* is the 403 of the policy gate; in no case is it a 5xx.
C23_MalformedJson ==
  (OnBodyRoute /\ ~Oversize /\ last.req.body.json = "invalid") =>
    /\ BodyRead => (last.status = 400 /\ last.error = "invalid_json"
                    /\ last.quota = "none")
    /\ last.status < 500
    /\ (~BodyRead /\ last.passed) =>
         (last.status = 403 /\
          last.error \in {"reply_only_mode", "calendar_write_disabled"})

C23_Witness ==
  /\ OnBodyRoute /\ BodyRead /\ ~Oversize
  /\ last.req.method = "PATCH"
  /\ last.req.body.json = "invalid"
  /\ last.status = 400 /\ last.error = "invalid_json"
  /\ Len(providerCalls) = 1 /\ providerCalls[1].op = "updateEvent"

\* C24: an admitted request that passed the policy gate of its route, whose body
\* is within the size limit and parses as JSON of any shape (object, null, array,
\* scalar) but lacks a non-empty required field (reply: threadId, to, subject,
\* body; send: to, subject, body; create: calendarId, summary, start, end; update:
\* calendarId) is answered 400 missing_fields, consumes no quota and calls no
\* provider.
C24_MissingFields ==
  [][(/\ hist'.calls = hist.calls + 1
      /\ last'.passed
      /\ <<last'.req.method, last'.req.path>> \in BodyRoutes
      /\ (BodyRead /\ ~Oversize)'
      /\ last'.req.body.json # "invalid"
      /\ LET b == last'.req.body
             f == IF b.json = "object" THEN b.f ELSE NoFields
             has(names) == \A n \in names : Truthy(f[n])
         IN  CASE last'.req.path = "/v1/email/reply" ->
                    ~has({"threadId", "to", "subject", "body"})
               [] last'.req.path = "/v1/email/send" -> ~has({"to", "subject", "body"})
               [] last'.req.method = "POST" ->
                    ~has({"calendarId", "summary", "start", "end"})
               [] OTHER -> ~has({"calendarId"})) =>
       /\ last'.status = 400 /\ last'.error = "missing_fields"
       /\ last'.quota = "none"
       /\ counters' = counters
       /\ providerCalls' = providerCalls
    ]_vars

\* The routes that server.ts defines, among the methods and paths of the model.
Routes ==
  {<<"GET", "/healthz">>, <<"POST", "/v1/auth/token">>, <<"GET", "/v1/email/unread">>,
   <<"GET", "/v1/calendar/events">>, <<"POST", "/v1/calendar/events">>,
   <<"PATCH", "/v1/calendar/events/evt1">>, <<"POST", "/v1/email/reply">>,
   <<"POST", "/v1/email/send">>}

\* The path of a request begins with /v1/.
UnderV1(path) ==
  path \in {"/v1/nope"} \cup {route[2] : route \in Routes \ {<<"GET", "/healthz">>}}

\* C25 as stated: a request whose method and path match no route is answered 404
\* deny-by-default, with or without valid credentials, under /v1/ or not, and
\* calls no provider.
C25_UnknownAlways404 ==
  [][(/\ hist'.calls = hist.calls + 1
      /\ <<last'.req.method, last'.req.path>> \notin Routes) =>
       /\ last'.status = 404 /\ last'.error = "deny-by-default"
       /\ providerCalls' = providerCalls
    ]_vars

\* C25: a request whose method and path match no route calls no provider and
\* touches no quota counter.  With a path outside /v1/ it is answered 404
\* deny-by-default whatever credentials it carries, and leaves no audit entry and
\* no replay marker.  With a path under /v1/ it goes through the admission
\* middleware first: 401 unauthorized with an auth_deny audit entry when it is
\* not authenticated, 429 when its principal is over the rate, and 404
\* deny-by-default once admitted.
C25_UnknownRoute ==
  [][(/\ hist'.calls = hist.calls + 1
      /\ <<last'.req.method, last'.req.path>> \notin Routes) =>
       /\ providerCalls' = providerCalls
       /\ counters' = counters
       /\ IF ~UnderV1(last'.req.path)
          THEN /\ last'.status = 404 /\ last'.error = "deny-by-default"
               /\ auditLog' = auditLog /\ replayFiles' = replayFiles
               /\ memRate' = memRate
          ELSE IF last'.authed = ""
          THEN /\ last'.status = 401 /\ last'.error = "unauthorized"
               /\ Len(auditLog') = Len(auditLog) + 1
               /\ auditLog'[Len(auditLog')].action = "auth_deny"
          ELSE IF ~last'.passed
          THEN last'.status = 429 /\ last'.error = "rate_limited"
          ELSE /\ last'.status = 404 /\ last'.error = "deny-by-default"
               /\ auditLog' = auditLog
       /\ last'.req.hdr = KeyHdr => last'.status = 404
       /\ (last'.req.hdr.xApiKey # cfg.apiKey /\ last'.req.hdr.scheme # "Bearer "
           /\ last'.req.hdr.xAgentKey # cfg.apiKey
           /\ UnderV1(last'.req.path)) => last'.status = 401
    ]_vars

C25_Witness ==
  /\ last.op = "req" /\ <<last.req.method, last.req.path>> = <<"GET", "/v1/nope">>
  /\ last.req.hdr = KeyHdr /\ last.authed = "api-key"
  /\ last.status = 404 /\ last.error = "deny-by-default"
  /\ Len(auditLog) = 1 /\ auditLog[1].action = "auth_deny"
  /\ auditLog[1].path = "/v1/nope"

\* The audit action of each data route.
ActionOf ==
  (<<"GET", "/v1/email/unread">> :> "email_unread")
    @@ (<<"GET", "/v1/calendar/events">> :> "calendar_events")
    @@ (<<"POST", "/v1/calendar/events">> :> "calendar_create")
    @@ (<<"PATCH", "/v1/calendar/events/evt1">> :> "calendar_update")
    @@ (<<"POST", "/v1/email/reply">> :> "send_reply")
    @@ (<<"POST", "/v1/email/send">> :> "send_new")

\* C27: a request answered 200 on a data route has made its provider call and
\* has appended exactly one audit entry, which carries the time, the action of
\* the route and as principal 'api-key' for a request admitted by the API key and
\* the subject of the token for one admitted by a bearer token; on the unread
\* route the entry counts the items of the answer made from the provider's
\* result.  No step removes or changes an entry of the audit log.
C27_AuditOnSuccess ==
  [][/\ Len(auditLog') >= Len(auditLog)
     /\ SubSeq(auditLog', 1, Len(auditLog)) = auditLog
     /\ (/\ hist'.calls = hist.calls + 1
         /\ last'.status = 200
         /\ <<last'.req.method, last'.req.path>> \in DOMAIN ActionOf) =>
          LET entry == auditLog'[Len(auditLog')]
              hdr == last'.req.hdr
              byKey == (IF hdr.xApiKey # <<>> THEN hdr.xApiKey ELSE hdr.xAgentKey)
                         = cfg.apiKey
          IN  /\ Len(auditLog') = Len(auditLog) + 1
              /\ Len(providerCalls') = Len(providerCalls) + 1
              /\ entry.ts = clockMs
              /\ entry.action = ActionOf[<<last'.req.method, last'.req.path>>]
              /\ entry.principal = IF byKey THEN "api-key" ELSE hdr.token.p.sub.v
              /\ entry.action = "email_unread" => entry.count = last'.json.count
    ]_vars

C27_Witness ==
  /\ last.op = "req" /\ last.status = 200
  /\ last.req.path = "/v1/email/reply" /\ last.req.hdr.scheme = "Bearer "
  /\ Len(auditLog) = 2 /\ Len(providerCalls) = 2
  /\ auditLog[1].action = "calendar_create" /\ auditLog[1].principal = "api-key"
  /\ auditLog[2].action = "send_reply" /\ auditLog[2].principal = "agent-1"
  /\ auditLog[2].ts = clockMs

----------------------------------------------------------------------------
(* SpecRecipient: allowedRecipient applied to an address, an email allowlist, a
   domain allowlist and the allowAll flag *)

InitRecipient ==
  /\ InitState
  /\ cfg = BaseCfg
  /\ tokens = {}
  /\ hist = NoHist
  /\ last \in [op : {"input"},
                to : {"ok@example.com", " OK@Example.com ", "eve@evil.org",
                      "a b@evil.org", "ok@example", "victim@example.com@attacker.com",
                      "@example.com", "ok@", "ok@example.c", "o!k@example.com",
                      "ok@mail.example.com", ""},
                allowEmails : {{}, {"ok@example.com"}, {" OK@Example.com ", "eve@evil.org"},
                               {"victim@example.com@attacker.com", "ok@example"}},
                allowDomains : {{}, {"example.com"}, {" Evil.ORG ", "attacker.com"}},
                allowAll : BOOLEAN]

NextRecipient ==
  /\ last.op = "input"
  /\ last' = [last EXCEPT !.op = "allowedRecipient"]
               @@ [result |-> allowedRecipient(last.to, last.allowEmails,
                                               last.allowDomains, last.allowAll)]
  /\ UNCHANGED <<cfg, clockMs, ticks, replayFiles, lastSweepMs, tokens, counters, locks,
                 memRate, auditLog, providerCalls, proc, hist>>

SpecRecipient == InitRecipient /\ [][NextRecipient]_vars

----------------------------------------------------------------------------
(* Claims checked under SpecRecipient *)

\* The characters of s with blanks at both ends removed and letters lowered.
Lowered(s) == toLowerCase(trim(Text(s)))

\* A lowered text is a well-formed address: one "@" and no blank, before the "@"
\* one or more of a-z 0-9 . _ % + -, after it labels of a-z 0-9 . - closed by a
\* dot and two or more letters.
WellFormed(n) ==
  LET letters == {LowerAlpha[k] : k \in 1..26}
      ats == {i \in 1..Len(n) : n[i] = "@"}
      dots == {i \in 1..Len(n) : n[i] = "."}
  IN  /\ Cardinality(ats) = 1
      /\ \A i \in 1..Len(n) : n[i] # " "
      /\ \E a \in ats :
           /\ a > 1
           /\ \A i \in 1..(a - 1) : n[i] \in letters \cup Digits \cup {".", "_", "%", "+", "-"}
           /\ \E d \in dots :
                /\ d > a + 1 /\ Len(n) >= d + 2
                /\ \A i \in (a + 1)..(d - 1) : n[i] \in letters \cup Digits \cup {".", "-"}
                /\ \A i \in (d + 1)..Len(n) : n[i] \in letters

\* The part of a lowered address after its "@".
DomainOf(n) == SubSeq(n, (CHOOSE i \in 1..Len(n) : n[i] = "@") + 1, Len(n))

\* C15: allowedRecipient returns true exactly when the address, trimmed and
\* lowered, is well formed and allowAll is set, or the address is a trimmed and
\* lowered entry of the email list, or its domain is one of the domain list; so
\* never for an address with two "@", and never when both lists are empty and
\* allowAll is off.
C15_AllowedRecipient ==
  last.op = "allowedRecipient" =>
    /\ last.result =
         (/\ WellFormed(Lowered(last.to))
          /\ \/ last.allowAll
             \/ Lowered(last.to) \in {Lowered(x) : x \in last.allowEmails}
             \/ DomainOf(Lowered(last.to)) \in {Lowered(x) : x \in last.allowDomains})
    /\ last.to = "victim@example.com@attacker.com" => ~last.result
    /\ (last.allowEmails = {} /\ last.allowDomains = {} /\ ~last.allowAll) => ~last.result

C15_Witness ==
  /\ last.op = "allowedRecipient"
  /\ last.to = " OK@Example.com "
  /\ last.allowEmails = {" OK@Example.com ", "eve@evil.org"}
  /\ last.allowDomains = {}
  /\ ~last.allowAll
  /\ last.result

----------------------------------------------------------------------------
(* SpecRead: requests with the API key on the two read routes, with query
   parameters of every kind and provider answers of several shapes, under three
   read policies, on several days of the week *)

MaxReadCalls == 1

\* block / warn; full thread / latest only by default; this week / the whole
\* window by default; windows of one and two days; attendees alone / all three
\* fields / location alone exposed.
InitRead ==
  /\ InitState
  /\ cfg \in {BaseCfg,
               [BaseCfg EXCEPT !.authHandlingMode = "warn",
                               !.threadContextMode = "latest_only",
                               !.defaultThisWeek = FALSE, !.maxRecentDays = 1,
                               !.maxPastDays = 1, !.maxFutureDays = 0,
                               !.allowLocation = TRUE, !.allowMeetingUrls = TRUE],
               [BaseCfg EXCEPT !.maxFutureDays = 0, !.maxRecentDays = 3,
                               !.allowAttendeeEmails = FALSE, !.allowLocation = TRUE]}
  /\ tokens = {}
  /\ last = NoReq
  /\ hist = NoHist

ReadRequests ==
  LET mail(id, subject, body) ==
        [id |-> id, threadId |-> "t", subject |-> subject, snippet |-> <<"plain">>,
         body |-> body]
      hello == mail("1", <<"plain">>, <<"blank", "plain", "blank">>)
      otp == mail("2", <<"auth">>, <<"plain">>)
      quoted == mail("3", <<>>, <<"plain", "wrote", "quoted_auth">>)
      inline == mail("4", <<"plain">>, <<"plain", "auth", "quoted">>)
      unread == Req("GET", "/v1/email/unread", KeyHdr, NoBody)
      events == Req("GET", "/v1/calendar/events", KeyHdr, NoBody)
      day(n) == [t |-> "date", v |-> n * MsPerDay + MsPerHour]
      times == {JsUndefined, JsString("abc"), day(0), day(2), day(3), day(6)}
      text(segments) == [t |-> "list", v |-> segments]
      noTime == [dateTime |-> JsUndefined, date |-> JsUndefined]
      alice == [email |-> JsString("alice@example.com"), displayName |-> JsUndefined,
                self |-> [t |-> "boolean", v |-> "true"],
                responseStatus |-> JsString("accepted"), comment |-> JsString("x")]
      e1 == [id |-> JsString("e1"), summary |-> JsString("Standup"),
             start |-> [noTime EXCEPT !.dateTime = JsString("2025-01-15T10:00:00Z")],
             end |-> [noTime EXCEPT !.date = JsString("2025-01-16")],
             location |-> JsString("123 Main St"),
             hangoutLink |-> JsString("https://meet.google.com/abc"),
             attendees |-> [t |-> "array", v |-> <<alice>>]]
      e2 == [id |-> JsString("e2"), summary |-> JsUndefined, start |-> noTime,
             end |-> noTime, location |-> JsUndefined, hangoutLink |-> JsUndefined,
             attendees |-> JsUndefined]
      e3 == [e2 EXCEPT !.id = JsString("e3"), !.location = JsString(""),
                       !.attendees = [t |-> "array", v |-> <<>>]]
  IN  {[events EXCEPT !.raw = raw] : raw \in {<<e1>>, <<e2, e1>>, <<e3>>}} \cup
      {[unread EXCEPT !.q.days = JsString(v)] :
         v \in {"", " ", "0", "1", "2", "10", " 2 ", "-3", "abc", "2x", "Infinity"}}
        \cup {[unread EXCEPT !.q.contextMode = m, !.raw = raw] :
                m \in {JsUndefined, JsString("latest_only"), JsString("full_thread"),
                       JsString("abc")},
                raw \in {<<>>, <<hello, otp>>, <<quoted>>, <<otp, quoted, hello, inline>>,
                         <<otp, otp>>}}
        \cup {[events EXCEPT !.q.start = a, !.q.end = b] : a \in times, b \in times}
        \cup {[events EXCEPT !.q.calendars = text(segments)] :
                segments \in {<<>>, <<"primary">>, <<" primary ", "", "primary">>,
                              <<"secret">>, <<"primary", "secret">>, <<" ", "">>}}

NextRead ==
  \/ \E req \in ReadRequests : hist.calls < MaxReadCalls /\ Request(req)
  \/ \E d \in {MsPerDay} : hist.calls = 0 /\ TickServer(d)

SpecRead == InitRead /\ [][NextRead]_vars

----------------------------------------------------------------------------
(* Claims checked under SpecRead *)

\* The last request was served 200 on the given route.
Served(method, path) ==
  /\ last.op = "req" /\ last.status = 200
  /\ <<last.req.method, last.req.path>> = <<method, path>>

\* A line holds a phrase of the auth corpus.
AuthLine(line) == line \in {"auth", "quoted_auth"}

\* Line i of a text is shown under a context mode: under latest_only no line up
\* to i begins a quotation.
ShownLine(text, i, mode) ==
  mode = "latest_only" => \A j \in 1..i : text[j] \notin {"quoted", "quoted_auth", "wrote"}

\* What the subject and the shown snippet and body of a message hold matches the
\* auth corpus.
AuthSensitive(m, mode) ==
  \/ \E i \in 1..Len(m.subject) : AuthLine(m.subject[i])
  \/ \E text \in {m.snippet, m.body} :
       \E i \in 1..Len(text) : AuthLine(text[i]) /\ ShownLine(text, i, mode)

\* The positions of a list that satisfy a condition, in order.
RECURSIVE Positions(_, _)
Positions(n, keep) ==
  IF n = 0 THEN <<>>
  ELSE IF n \in keep THEN Append(Positions(n - 1, keep), n) ELSE Positions(n - 1, keep)

\* C16: whatever the provider returns and whichever context mode is in effect
\* (the query's when it is latest_only or full_thread, else the configured one):
\* under block the items are the messages that are not auth sensitive, in order,
\* none of them marked auth_sensitive or holding an auth phrase in what is
\* returned of it, count is the number of items and there are no warnings; under
\* warn the items are all messages, and the warnings list the auth sensitive
\* ones, each once and with wouldBlock, and no other.
C16_AuthHandling ==
  Served("GET", "/v1/email/unread") =>
    LET raw == last.req.raw
        q == last.req.q.contextMode
        mode == IF q.t = "string" /\ q.v \in {"latest_only", "full_thread"} THEN q.v
                ELSE cfg.threadContextMode
        sens == {i \in 1..Len(raw) : AuthSensitive(raw[i], mode)}
        kept == Positions(Len(raw), (1..Len(raw)) \ sens)
        flagged == Positions(Len(raw), sens)
        j == last.json
    IN  /\ j.contextMode = mode
        /\ j.count = Len(j.items)
        /\ cfg.authHandlingMode = "block" =>
             /\ ~j.hasWarnings
             /\ Len(j.items) = Len(kept)
             /\ \A i \in 1..Len(kept) :
                  /\ j.items[i].id = raw[kept[i]].id
                  /\ j.items[i].sensitivity = "normal"
                  /\ \A text \in {j.items[i].subject, j.items[i].snippet, j.items[i].body} :
                       \A k \in 1..Len(text) : ~AuthLine(text[k])
        /\ cfg.authHandlingMode = "warn" =>
             /\ j.hasWarnings
             /\ Len(j.items) = Len(raw)
             /\ \A i \in 1..Len(raw) :
                  /\ j.items[i].id = raw[i].id
                  /\ j.items[i].sensitivity =
                       (IF i \in sens THEN "auth_sensitive" ELSE "normal")
             /\ Len(j.warnings) = Len(flagged)
             /\ \A i \in 1..Len(flagged) :
                  /\ j.warnings[i].id = raw[flagged[i]].id
                  /\ j.warnings[i].wouldBlock

C16_Witness ==
  /\ Served("GET", "/v1/email/unread")
  /\ cfg.authHandlingMode = "block"
  /\ last.json.contextMode = "latest_only"
  /\ Len(last.req.raw) = 4
  /\ last.json.count = 2
  /\ last.json.items[1].id = "3" /\ last.json.items[1].body = <<"plain">>

\* C17: every calendar id that GET /v1/calendar/events hands to the provider's
\* getCalendarEvents is one of the configured calendar ids, whatever the calendars
\* parameter holds.
C17_ConfiguredCalendarsOnly ==
  \A i \in 1..Len(providerCalls) :
    providerCalls[i].op = "getCalendarEvents" =>
      providerCalls[i].calendarIds \subseteq {Text(x) : x \in cfg.calendarIds}

\* C18: for every requested start and end the window handed to the provider lies
\* in the policy window and is ordered: min <= start <= end <= max, with min the
\* start of the UTC day maxPastDays before today and max the last millisecond of
\* the UTC day maxFutureDays after today.
C18_WindowWithinPolicy ==
  Served("GET", "/v1/calendar/events") =>
    LET today == clockMs \div MsPerDay
        min == (today - cfg.maxPastDays) * MsPerDay
        max == (today + cfg.maxFutureDays + 1) * MsPerDay - 1
        call == providerCalls[Len(providerCalls)]
    IN  /\ min <= call.timeMin /\ call.timeMin <= call.timeMax /\ call.timeMax <= max
        /\ last.json.start = call.timeMin /\ last.json.end = call.timeMax

\* The number a days value denotes, for the values that denote one.
DaysValue ==
  [v \in {"0", "1", "2", "10", " 2 ", "-3"} |->
     CASE v = "0" -> 0 [] v = "1" -> 1 [] v = "2" -> 2 [] v = "10" -> 10
       [] v = " 2 " -> 2 [] v = "-3" -> 0 - 3]

\* The days of the last unread request: what the provider was asked for, which is
\* also what the response echoes.
DaysUsed == providerCalls[Len(providerCalls)].days

\* C19 as stated: the effective days are clamp(v, 1, maxRecentDays) for a numeric
\* v and maxRecentDays for every v that is not numeric, the empty and the blank
\* value included.
C19_NonNumericGivesMax ==
  (Served("GET", "/v1/email/unread") /\ last.req.q.days.t = "string") =>
    LET v == last.req.q.days.v
        max == cfg.maxRecentDays
    IN  /\ last.json.days = DaysUsed
        /\ DaysUsed = IF v \notin DOMAIN DaysValue THEN max
                      ELSE IF DaysValue[v] <= 0 THEN 1
                      ELSE IF DaysValue[v] > max THEN max ELSE DaysValue[v]

\* C19: the effective days, handed to the provider and echoed in the response,
\* are clamp(v, 1, maxRecentDays) for a numeric v (1 for v <= 0, maxRecentDays
\* for v > maxRecentDays), 1 for an empty or blank v, which counts as the number
\* 0, and maxRecentDays for any other v; they always lie in [1, maxRecentDays].
C19_ClampedDays ==
  (Served("GET", "/v1/email/unread") /\ last.req.q.days.t = "string") =>
    LET v == last.req.q.days.v
        max == cfg.maxRecentDays
    IN  /\ last.json.days = DaysUsed
        /\ 1 <= DaysUsed /\ DaysUsed <= max
        /\ DaysUsed = IF v \in {"", " "} THEN 1
                      ELSE IF v \notin DOMAIN DaysValue THEN max
                      ELSE IF DaysValue[v] <= 0 THEN 1
                      ELSE IF DaysValue[v] > max THEN max ELSE DaysValue[v]

C19_Witness ==
  /\ Served("GET", "/v1/email/unread")
  /\ last.req.q.days = JsString("10")
  /\ cfg.maxRecentDays = 3
  /\ last.json.days = 3
  /\ DaysUsed = 3

\* C40: when the days parameter of GET /v1/email/unread is absent or empty, the
\* provider is asked for 1 day and the response echoes 1, whatever maxRecentDays
\* is: the handler passes null, which counts as the number 0 and is raised to 1.
C40_AbsentDaysGivesOne ==
  (/\ Served("GET", "/v1/email/unread")
   /\ last.req.q.days \in {JsUndefined, JsString("")}) =>
    /\ DaysUsed = 1
    /\ last.json.days = 1

C40_Witness ==
  /\ Served("GET", "/v1/email/unread")
  /\ last.req.q.days = JsUndefined
  /\ cfg.maxRecentDays = 3
  /\ DaysUsed = 1
  /\ last.json.days = 1

\* The provider event has a location / a meeting link / at least one attendee.
HasField(e, key) ==
  IF key = "attendees" THEN e.attendees.t = "array" /\ e.attendees.v # <<>>
  ELSE e[key].t = "string" /\ e[key].v # ""

\* The policy flag that gates a key of the response item.
FlagOf(key) ==
  CASE key = "location" -> cfg.allowLocation
    [] key = "hangoutLink" -> cfg.allowMeetingUrls
    [] key = "attendees" -> cfg.allowAttendeeEmails

\* C29 as stated: for every event the provider returns, the response item holds
\* the location key iff allowLocation, the hangoutLink key iff allowMeetingUrls
\* and the attendees key iff allowAttendeeEmails.
C29_KeysIffFlags ==
  Served("GET", "/v1/calendar/events") =>
    \A i \in 1..Len(last.req.raw) :
      \A key \in {"location", "hangoutLink", "attendees"} :
        key \in DOMAIN last.json.items[i] <=> FlagOf(key)

\* C29: the response holds one item for each event the provider returns, in
\* order; an item holds the location key iff allowLocation is true and the event
\* has a non-empty location, the hangoutLink key iff allowMeetingUrls is true and
\* the event has a non-empty hangoutLink, the attendees key iff
\* allowAttendeeEmails is true and the event has at least one attendee, so no
\* gated key appears while its flag is false; a key that appears carries the
\* event's value, each attendee reduced to email, displayName, self and
\* responseStatus; id, summary, start and end are always present.
C29_FieldExposure ==
  Served("GET", "/v1/calendar/events") =>
    /\ Len(last.json.items) = Len(last.req.raw)
    /\ last.json.count = Len(last.req.raw)
    /\ \A i \in 1..Len(last.req.raw) :
         LET e == last.req.raw[i]
             item == last.json.items[i]
         IN  /\ {"id", "summary", "start", "end"} \subseteq DOMAIN item
             /\ item.id = e.id
             /\ \A key \in {"location", "hangoutLink", "attendees"} :
                  /\ key \in DOMAIN item <=> (FlagOf(key) /\ HasField(e, key))
                  /\ ~FlagOf(key) => key \notin DOMAIN item
             /\ "location" \in DOMAIN item => item.location = e.location
             /\ "hangoutLink" \in DOMAIN item => item.hangoutLink = e.hangoutLink
             /\ "attendees" \in DOMAIN item =>
                  /\ Len(item.attendees) = Len(e.attendees.v)
                  /\ \A k \in 1..Len(item.attendees) :
                       /\ DOMAIN item.attendees[k] =
                            {"email", "displayName", "self", "responseStatus"}
                       /\ item.attendees[k].email = e.attendees.v[k].email

C29_Witness ==
  /\ Served("GET", "/v1/calendar/events")
  /\ cfg.allowLocation /\ ~cfg.allowAttendeeEmails /\ ~cfg.allowMeetingUrls
  /\ Len(last.req.raw) = 2
  /\ DOMAIN last.json.items[1] = {"id", "summary", "start", "end"}
  /\ DOMAIN last.json.items[2] = {"id", "summary", "start", "end", "location"}
  /\ last.json.items[2].location = JsString("123 Main St")
  /\ last.json.items[1].start = [t |-> "null", v |-> ""]

----------------------------------------------------------------------------
(* SpecParse: parseEmailOutput applied to the standard output of the provider
   command. The output is a sequence of lines and a line a sequence of lexical
   tokens (punctuation, string literal, number literal, word); blanks between
   tokens are not represented, so a blank line is the empty sequence *)

MaxLines == 2

\* JSON.parse on a token sequence: ok and the value, or not ok where JSON.parse
\* throws a SyntaxError. Values are null, number, string, array (a sequence) and
\* object (a function from its keys; a repeated key keeps its last value).
JSONparse(ts) ==
  LET is(i, c) == i <= Len(ts) /\ ts[i].k = "punct" /\ ts[i].v = c
      bad == [ok |-> FALSE, val |-> JsUndefined, next |-> 0]
      RECURSIVE value(_), elements(_, _), members(_, _)
      value(i) ==
        IF i > Len(ts) THEN bad
        ELSE CASE ts[i].k = "string" ->
                    [ok |-> TRUE, val |-> JsString(ts[i].v), next |-> i + 1]
               [] ts[i].k = "number" ->
                    [ok |-> TRUE, val |-> [t |-> "number", v |-> ts[i].v], next |-> i + 1]
               [] ts[i].k = "word" /\ ts[i].v = "null" ->
                    [ok |-> TRUE, val |-> [t |-> "null", v |-> ""], next |-> i + 1]
               [] is(i, "[") ->
                    IF is(i + 1, "]")
                    THEN [ok |-> TRUE, val |-> [t |-> "array", v |-> <<>>], next |-> i + 2]
                    ELSE elements(i + 1, <<>>)
               [] is(i, "{") ->
                    IF is(i + 1, "}")
                    THEN [ok |-> TRUE, val |-> [t |-> "object", v |-> <<>>], next |-> i + 2]
                    ELSE members(i + 1, <<>>)
               [] OTHER -> bad
      elements(i, acc) ==
        LET e == value(i)
        IN  IF ~e.ok THEN bad
            ELSE IF is(e.next, ",") THEN elements(e.next + 1, Append(acc, e.val))
            ELSE IF is(e.next, "]")
                 THEN [ok |-> TRUE, val |-> [t |-> "array", v |-> Append(acc, e.val)],
                       next |-> e.next + 1]
            ELSE bad
      members(i, acc) ==
        IF ~(i <= Len(ts) /\ ts[i].k = "string" /\ is(i + 1, ":")) THEN bad
        ELSE LET m == value(i + 2)
                 obj == (ts[i].v :> m.val) @@ acc
             IN  IF ~m.ok THEN bad
                 ELSE IF is(m.next, ",") THEN members(m.next + 1, obj)
                 ELSE IF is(m.next, "}")
                      THEN [ok |-> TRUE, val |-> [t |-> "object", v |-> obj],
                            next |-> m.next + 1]
                 ELSE bad
      r == value(1)
  IN  IF r.ok /\ r.next = Len(ts) + 1 THEN [ok |-> TRUE, val |-> r.val]
      ELSE [ok |-> FALSE, val |-> JsUndefined]

looksLikeEmailItemById(v) ==
  /\ v.t = "object"
  /\ "id" \in DOMAIN v.v /\ v.v["id"].t = "string"

\* provider.ts lines 13-15; typeof null is 'object' but !!null is false, and an
\* array, whose typeof is 'object' too, has no id.
looksLikeEmailItem(v) ==
  /\ v.t = "object"
  /\ "id" \in DOMAIN v.v /\ v.v["id"].t = "string"
  /\ "threadId" \in DOMAIN v.v /\ v.v["threadId"].t = "string"

\* provider.ts lines 17-36. Reading a property of null throws a TypeError inside
\* the try block, so null takes the line-by-line branch like a SyntaxError.
parseEmailOutput(stdout) ==
  LET lines == SelectSeq(stdout, LAMBDA line : line # <<>>)
      RECURSIVE flat(_)
      flat(ls) == IF ls = <<>> THEN <<>> ELSE Head(ls) \o flat(Tail(ls))
      parsed == JSONparse(flat(lines))
      prop(o, key) == IF o.t = "object" /\ key \in DOMAIN o.v THEN o.v[key]
                      ELSE JsUndefined
      truthy(x) == x.t \in {"array", "object"} \/ Truthy(x)
      arr == IF parsed.val.t = "array" THEN parsed.val
             ELSE IF truthy(prop(parsed.val, "messages")) THEN prop(parsed.val, "messages")
             ELSE IF truthy(prop(parsed.val, "items")) THEN prop(parsed.val, "items")
             ELSE [t |-> "array", v |-> <<>>]
      perLine == [i \in 1..Len(lines) |->
                    LET p == JSONparse(lines[i])
                    IN  IF p.ok THEN p.val ELSE [t |-> "null", v |-> ""]]
  IN  IF lines = <<>> THEN <<>>
      ELSE IF parsed.ok /\ parsed.val.t # "null"
           THEN IF arr.t = "array" THEN SelectSeq(arr.v, looksLikeEmailItem) ELSE <<>>
      ELSE SelectSeq(perLine, looksLikeEmailItem)

InitParse ==
  /\ InitState
  /\ cfg = BaseCfg
  /\ tokens = {}
  /\ hist = NoHist
  /\ LET p(c) == [k |-> "punct", v |-> c]
         s(x) == [k |-> "string", v |-> x]
         n(x) == [k |-> "number", v |-> x]
         w(x) == [k |-> "word", v |-> x]
         item == <<p("{"), s("id"), p(":"), s("1"), p(","), s("threadId"), p(":"),
                   s("t1"), p(","), s("subject"), p(":"), s("ok"), p("}")>>
         numbered == <<p("{"), s("id"), p(":"), s("2"), p(","), s("threadId"), p(":"),
                       n("7"), p("}")>>
         nope == <<p("{"), s("nope"), p(":"), n("1"), p("}")>>
         Lines == {<<>>,
                   <<w("totally"), w("non-json"), w("output")>>,
                   <<w("subject"), w("line")>>,
                   item, numbered, nope,
                   item \o <<p(",")>>,
                   <<w("null")>>, <<s("id")>>, <<p("[")>>, <<p("]")>>,
                   <<p("[")>> \o item,
                   <<p("[")>> \o item \o <<p(",")>> \o numbered \o <<p(",")>>
                     \o <<w("null"), p(","), s("text"), p("]")>>,
                   <<p("{"), s("messages"), p(":"), p("[")>> \o item \o <<p(",")>>
                     \o nope \o <<p("]"), p("}")>>,
                   <<p("{"), s("items"), p(":"), p("[")>> \o item \o <<p("]"), p("}")>>,
                   <<p("{"), s("messages"), p(":"), s("none"), p(","), s("items"), p(":"),
                     p("[")>> \o item \o <<p("]"), p("}")>>,
                   <<p("{"), s("messages"), p(":"), s(""), p(","), s("items"), p(":"),
                     p("[")>> \o item \o <<p("]"), p("}")>>,
                   <<p("{"), s("messages"), p(":")>> \o item \o <<p("}")>>}
     IN  last \in {[op |-> "stdout", stdout |-> out] :
                     out \in UNION {[1..len -> Lines] : len \in 0..MaxLines}}

NextParse ==
  /\ last.op = "stdout"
  /\ last' = [op |-> "parseEmailOutput", stdout |-> last.stdout,
              result |-> parseEmailOutput(last.stdout)]
  /\ UNCHANGED <<cfg, clockMs, ticks, replayFiles, lastSweepMs, tokens, counters, locks,
                 memRate, auditLog, providerCalls, proc, hist>>

SpecParse == InitParse /\ [][NextParse]_vars

----------------------------------------------------------------------------
(* Claims checked under SpecParse *)

\* The tokens of the non-blank lines of an output, in order.
TokensOf(out) ==
  LET RECURSIVE flat(_)
      flat(ls) == IF ls = <<>> THEN <<>> ELSE Head(ls) \o flat(Tail(ls))
  IN  flat(out)

\* The elements of the array under a key of a parsed object, if there is one.
ArrayUnder(val, key) ==
  IF val.t = "object" /\ key \in DOMAIN val.v /\ val.v[key].t = "array"
  THEN {val.v[key].v[i] : i \in 1..Len(val.v[key].v)}
  ELSE {}

\* The values an item may be taken from: the elements of the array the whole
\* output parses to, of the messages or items array of the object it parses to,
\* and the values of the lines that are JSON texts themselves.
Sources(out) ==
  LET whole == JSONparse(TokensOf(out))
  IN  (IF whole.ok /\ whole.val.t = "array"
       THEN {whole.val.v[i] : i \in 1..Len(whole.val.v)} ELSE {})
      \cup (IF whole.ok THEN ArrayUnder(whole.val, "messages") ELSE {})
      \cup (IF whole.ok THEN ArrayUnder(whole.val, "items") ELSE {})
      \cup {JSONparse(out[i]).val : i \in {j \in 1..Len(out) : JSONparse(out[j]).ok}}

\* C30: parseEmailOutput never fabricates items: every returned item is a parsed
\* JSON object with a string id and a string threadId, taken from a JSON array,
\* from the messages or items field of a JSON object, or from a line that is
\* itself valid JSON; empty output, and text of which neither the whole nor any
\* line is JSON, give the empty list.
C30_NoFabricatedItems ==
  last.op = "parseEmailOutput" =>
    /\ \A i \in 1..Len(last.result) :
         LET item == last.result[i]
         IN  /\ item.t = "object"
             /\ {"id", "threadId"} \subseteq DOMAIN item.v
             /\ item.v["id"].t = "string" /\ item.v["threadId"].t = "string"
             /\ item \in Sources(last.stdout)
    /\ TokensOf(last.stdout) = <<>> => last.result = <<>>
    /\ (\A i \in 1..Len(last.stdout) : \A j \in 1..Len(last.stdout[i]) :
          last.stdout[i][j].k = "word" /\ last.stdout[i][j].v # "null")
         => last.result = <<>>
    /\ (/\ ~JSONparse(TokensOf(last.stdout)).ok
        /\ \A i \in 1..Len(last.stdout) : ~JSONparse(last.stdout[i]).ok)
         => last.result = <<>>

C30_Witness ==
  /\ last.op = "parseEmailOutput"
  /\ Len(last.stdout) = 2
  /\ ~JSONparse(TokensOf(last.stdout)).ok
  /\ JSONparse(last.stdout[1]).ok /\ ~JSONparse(last.stdout[2]).ok
  /\ Len(last.result) = 1
  /\ last.result[1].v["id"] = JsString("1")
  /\ last.result[1].v["subject"] = JsString("ok")

====
